---- MODULE Spec2Model ----
(***************************************************************************)
(* Model of the DIGIL connectivity checker (src/connectivity_checker.py):  *)
(* BridgeConnection (one shared relay session behind a lock),              *)
(* DeviceChecker (ping with long retry, then port check with short retry)  *)
(* and MultiThreadChecker.check_devices (fan-out over a thread pool, with  *)
(* a cooperative stop flag).                                               *)
(*                                                                         *)
(* A pool task is identified by the device it probes: tpc[d] is the        *)
(* position of the thread that runs worker(d).  Every step that touches    *)
(* shared state (the bridge lock, ssh_client, results, a callback) is an   *)
(* action of its own.                                                      *)
(***************************************************************************)
EXTENDS Integers, Sequences, FiniteSets, TLC

\* ------------------------------------------------------------ bounds
NumDevices == 2      \* devices handed to check_devices
PoolWidth == 2       \* max_workers of the thread pool
MaxCmdSeconds == 2   \* longest relay command (lock wait included), SpecProbe
MaxDrops == 1        \* transport losses of the relay session, SpecBridge
MaxIdLen == 7        \* longest device identifier, SpecText
MaxTailLen == 2      \* longest tail of an address after its stem, SpecText

\* ------------------------------------------------- program constants
MASTER_PING_RETRY_TIMEOUT == 300
SLAVE_PING_RETRY_TIMEOUT == 1200
PING_RETRY_INTERVAL == 10
SSH_RETRY_ATTEMPTS == 5

Devices == 1..NumDevices

\* connect()'s failure messages, one per except clause
ConnectErrors == {"Timeout connessione", "Impossibile risolvere",
                  "Autenticazione fallita", "Errore connessione ponte"}

\* What the relay can answer to a ping and to a port probe; "exception" is
\* exec_command or a read raising.
PingReplies == {"bytes from", "1 received", "0 received", "inconclusive",
                "exception"}
PortReplies == {"PORT_OPEN", "PORT_CLOSED", "timed out", "other", "exception"}

\* The environment of a specification: how long a relay command takes as the
\* caller sees it, and what the relay answers.  In the fleet specification a
\* command takes a whole slave budget (a failing ping phase ends after two
\* attempts) and the relay answers plainly; SpecProbe explores the clock to
\* the second and every kind of answer.
FleetEnv == [lat |-> {SLAVE_PING_RETRY_TIMEOUT},
             ping |-> {"bytes from", "0 received"},
             port |-> {"PORT_OPEN", "PORT_CLOSED"}]
ProbeEnv == [lat |-> 0..MaxCmdSeconds, ping |-> PingReplies, port |-> PortReplies]

VARIABLES
    mainpc,         \* position of the thread inside check_devices
    success,        \* check_devices' local: what bridge.connect() returned
    stop_flag,      \* MultiThreadChecker._stop_flag
    ssh_client,     \* BridgeConnection.ssh_client: "None", "inactive", "active"
    lock,           \* BridgeConnection._lock: 0 free, d held by task d
    results,        \* MultiThreadChecker._results
    completed,      \* completed[0]
    yielded,        \* futures as_completed has already yielded
    device_type,    \* DeviceInfo.device_type
    ping_status,    \* DeviceInfo.ping_status
    ssh_status,     \* DeviceInfo.ssh_status
    error_message,  \* DeviceInfo.error_message
    tpc,            \* position of the pool thread running worker(d)
    cmd,            \* the command execute_command was called with
    attempt,        \* local attempt of check_ping / check_ssh_port_with_retry
    elapsed,        \* local elapsed of check_ping
    clk,            \* time.time() - start_time as task d would read it now
    nCmd,           \* observed: ping / port-probe commands the current retry
                    \* loop of task d has run on the relay (nc fallback apart)
    nSleep,         \* observed: time.sleep calls of the current retry loop
    heard,          \* observed: what the relay answered in the current retry
                    \* loop: "nothing" (only "0 received" / PORT_CLOSED so
                    \* far), "noise" (another failing answer) or "answer"
    nCompletion,    \* observed: completion_callback invocations
    dpc,            \* position of DiagnosticWorkerThread.run
    idx,            \* index of the device loop the thread is in (from 1)
    stop_requested, \* DiagnosticWorkerThread._stop_requested
    check_api,      \* DiagnosticWorkerThread.check_api
    check_mongodb,  \* DiagnosticWorkerThread.check_mongodb
    battery_ok,     \* device.battery_ok: "None", "True", "False"
    door_open,      \* device.door_open
    lte_ok,         \* device.lte_ok
    mongodb_has_data, \* device.mongodb_has_data
    api_error,      \* device.api_error ("" while the attribute is unset)
    mongodb_error,  \* device.mongodb_error ("" while unset or empty)
    malfunction_type, \* device.malfunction_type: <<>> while unset, else
                    \* the pair classify returned
    apiCalled,      \* observed: devices get_device_diagnostics was called for
    apiFailed,      \* observed: devices whose vendor API call failed
    mongoCalled,    \* observed: devices check_device was called for
    mongoFailed,    \* observed: devices whose 24h query failed with an error
    signals,        \* observed: the completed_signal / error_signal
                    \* emissions of run, in order
    completed_results, \* observed: the list completed_signal carried
                    \* (<<>> before the emission)
    exec_success,   \* local success of check_ping_single / check_ssh_port:
                    \* what execute_command returned last ("unset" before)
    status,         \* local status of the retry loops: what the single
                    \* check returned last ("unset" before)
    live,           \* observed: SSH sessions whose transport is alive
    drops,          \* observed: times the transport of the session died
    stop_called,    \* observed: stop() has been called on the checker
    reported,       \* observed: the count each device's "Completato"
                    \* callback carried (0 before the callback)
    device_id,      \* argument of detect_device_type, a string as the
                    \* sequence of its characters
    ip_raw,         \* argument of normalize_ip
    ip_address,     \* what normalize_ip returned (<<>> before the call)
    timestamp,      \* argument of _decode_timestamp
    instant,        \* observed: the instant the timestamp stands for
    utc_offset,     \* hours the local time zone of the machine is ahead of UTC
    api_timestamp,  \* what _decode_timestamp returned (<<>> for None)
    dtype,          \* what detect_device_type returned ("unset" before)
    textpc          \* which of the three functions is under study, and
                    \* whether it has returned

mainVars == <<mainpc, success, yielded, nCompletion>>
bridgeVars == <<ssh_client, lock>>
resultVars == <<results, completed>>
devVars == <<device_type, ping_status, ssh_status, error_message>>
taskVars == <<tpc, cmd, attempt, elapsed, clk>>
obsVars == <<nCmd, nSleep, heard>>
retVars == <<exec_success, status>>
sessionVars == <<live, drops>>
textVars == <<device_id, ip_raw, ip_address, timestamp, instant, utc_offset,
              api_timestamp, dtype, textpc>>
checkerVars == <<mainVars, bridgeVars, resultVars, devVars, taskVars, obsVars,
                 retVars, sessionVars, reported>>
threadVars == <<dpc, idx, stop_requested, check_api, check_mongodb>>
factVars == <<battery_ok, door_open, lte_ok, mongodb_has_data>>
noteVars == <<api_error, mongodb_error>>
fusionObsVars == <<apiCalled, apiFailed, mongoCalled, mongoFailed>>
signalVars == <<signals, completed_results>>
diagVars == <<threadVars, factVars, noteVars, malfunction_type, fusionObsVars,
              signalVars>>
vars == <<checkerVars, stop_flag, stop_called, diagVars, textVars>>

\* ------------------------------------------------------------ helpers
Running(d) == tpc[d] \notin {"unsubmitted", "pending", "done", "raised",
                             "cancelled"}
Finished(d) == tpc[d] \in {"done", "raised", "cancelled"}

NoTaskState ==
    /\ tpc = [d \in Devices |-> "unsubmitted"]
    /\ cmd = [d \in Devices |-> "none"]
    /\ attempt = [d \in Devices |-> 0]
    /\ elapsed = [d \in Devices |-> 0]
    /\ clk = [d \in Devices |-> 0]
    /\ exec_success = [d \in Devices |-> "unset"]
    /\ status = [d \in Devices |-> "unset"]

\* No text function is under study: the inputs are empty.
NoText ==
    /\ device_id = <<>>
    /\ ip_raw = <<>>
    /\ ip_address = <<>>
    /\ timestamp = [kind |-> "None"]
    /\ instant = <<0, 0>>
    /\ utc_offset = 0
    /\ api_timestamp = <<>>
    /\ dtype = "unset"
    /\ textpc = "none"

NoObservations ==
    /\ nCmd = [d \in Devices |-> 0]
    /\ nSleep = [d \in Devices |-> 0]
    /\ heard = [d \in Devices |-> "nothing"]
    /\ nCompletion = 0
    /\ reported = [d \in Devices |-> 0]

\* A roster whose devices no fusion stage has touched yet: the attributes
\* the stages add are unset.
NoFusionState ==
    /\ battery_ok = [d \in Devices |-> "None"]
    /\ door_open = [d \in Devices |-> "None"]
    /\ lte_ok = [d \in Devices |-> "None"]
    /\ mongodb_has_data = [d \in Devices |-> "None"]
    /\ api_error = [d \in Devices |-> ""]
    /\ mongodb_error = [d \in Devices |-> ""]
    /\ malfunction_type = [d \in Devices |-> <<>>]
    /\ apiCalled = {}
    /\ apiFailed = {}
    /\ mongoCalled = {}
    /\ mongoFailed = {}
    /\ signals = <<>>
    /\ completed_results = <<>>

\* MultiThreadChecker used on its own: no DiagnosticWorkerThread runs.
NoDiagnosticThread ==
    /\ dpc = "idle"
    /\ idx = 0
    /\ stop_requested = FALSE
    /\ check_api = FALSE
    /\ check_mongodb = FALSE
    /\ NoFusionState

\* State after MultiThreadChecker() was constructed and the roster loaded;
\* the roster alternates master and slave devices.
Init ==
    /\ mainpc = "idle"
    /\ success = "unset"
    /\ stop_flag = FALSE
    /\ ssh_client = "None"
    /\ lock = 0
    /\ results = <<>>
    /\ completed = 0
    /\ yielded = {}
    /\ device_type = [d \in Devices |-> IF d % 2 = 1 THEN "master" ELSE "slave"]
    /\ ping_status = [d \in Devices |-> "PENDING"]
    /\ ssh_status = [d \in Devices |-> "PENDING"]
    /\ error_message = [d \in Devices |-> ""]
    /\ NoTaskState
    /\ NoObservations
    /\ live = 0
    /\ drops = 0
    /\ stop_called = FALSE
    /\ NoDiagnosticThread
    /\ NoText

\* Mutant of LockFree: the command section is entered without the lock.
LockIgnored == TRUE

\* May a thread enter "with self._lock"?
LockFree == lock = 0

\* ------------------------------------------------ MultiThreadChecker
\* Mutant of MarkedDevices: the loop marks the devices and appends none.
MarkedDevicesNotAppended == <<>>

\* check_devices, relay unreachable: "for dev in devices: ...
\* self._results.append(dev)" leaves every device in the (reset) list.
MarkedDevices == [i \in 1..NumDevices |-> i]

\* Mutant of FutureRaised: the loop never calls future.result().
FutureResultNotRead(d) == FALSE

\* future.result() raises what worker(dev) raised.
FutureRaised(d) == tpc[d] = "raised"

\* Mutant of AllWorkersJoined: the executor is left with shutdown(wait=False).
WorkersNotJoined == TRUE

\* shutdown(wait=True): every pool thread has been joined, no work item is
\* left in the queue.
AllWorkersJoined == \A d \in Devices : ~Running(d) /\ tpc[d] # "pending"

\* stop(): only sets the flag.
Stop ==
    /\ ~stop_flag
    /\ stop_flag' = TRUE
    /\ stop_called' = TRUE
    /\ UNCHANGED <<mainVars, bridgeVars, resultVars, devVars, taskVars, obsVars>>
    /\ UNCHANGED <<diagVars, textVars, reported, retVars, sessionVars>>

\* check_devices up to the outcome of bridge.connect(): reset(), then
\* connect() under the bridge lock.  On failure every device is marked
\* VPN_ERROR and appended, the completion callback runs and the call returns.
CheckDevicesConnect ==
    /\ mainpc = "idle"
    /\ LockFree
    /\ stop_flag' = FALSE
    /\ completed' = 0
    /\ \/ /\ ssh_client' = "active"
          /\ live' = live + 1
          /\ success' = "True"
          /\ results' = <<>>
          /\ mainpc' = "submit"
          /\ UNCHANGED <<devVars, nCompletion>>
       \/ \E msg \in ConnectErrors :
          /\ ssh_client' = "inactive"
          /\ success' = "False"
          /\ ping_status' = [d \in Devices |-> "VPN_ERROR"]
          /\ ssh_status' = [d \in Devices |-> "VPN_ERROR"]
          /\ error_message' = [d \in Devices |-> msg]
          /\ results' = MarkedDevices
          /\ nCompletion' = nCompletion + 1
          /\ mainpc' = "returned"
          /\ UNCHANGED <<device_type, live>>
    /\ UNCHANGED <<yielded, lock, taskVars, obsVars, drops>>
    /\ UNCHANGED <<stop_called, diagVars, textVars, reported, retVars>>

\* futures = {executor.submit(worker, dev): dev for dev in devices}
Submit ==
    /\ mainpc = "submit"
    /\ tpc' = [d \in Devices |-> "pending"]
    /\ mainpc' = "collect"
    /\ UNCHANGED <<success, yielded, nCompletion, stop_flag, bridgeVars, resultVars,
                   devVars, cmd, attempt, elapsed, clk, obsVars>>
    /\ UNCHANGED <<stop_called, diagVars, textVars, reported, retVars, sessionVars>>

\* One iteration of "for future in as_completed(futures)".
Collect(d) ==
    /\ mainpc = "collect"
    /\ Finished(d)
    /\ d \notin yielded
    /\ IF stop_flag
       THEN \* executor.shutdown(wait=False, cancel_futures=True); break
            /\ tpc' = [e \in Devices |->
                         IF tpc[e] = "pending" THEN "cancelled" ELSE tpc[e]]
            /\ mainpc' = "join"
            /\ UNCHANGED <<yielded, devVars>>
       ELSE /\ yielded' = yielded \cup {d}
            /\ IF FutureRaised(d)
               THEN /\ error_message' = [error_message EXCEPT ![d] = "exception"]
                    /\ ping_status' = [ping_status EXCEPT ![d] = "ERROR"]
               ELSE UNCHANGED <<error_message, ping_status>>
            /\ UNCHANGED <<mainpc, tpc, device_type, ssh_status>>
    /\ UNCHANGED <<success, nCompletion, stop_flag, bridgeVars, resultVars, cmd,
                   attempt, elapsed, clk, obsVars>>
    /\ UNCHANGED <<stop_called, diagVars, textVars, reported, retVars, sessionVars>>

\* as_completed is exhausted: the for loop ends.
CollectEnd ==
    /\ mainpc = "collect"
    /\ yielded = Devices
    /\ mainpc' = "join"
    /\ UNCHANGED <<success, yielded, nCompletion, stop_flag, bridgeVars, resultVars,
                   devVars, taskVars, obsVars>>
    /\ UNCHANGED <<stop_called, diagVars, textVars, reported, retVars, sessionVars>>

\* Leaving "with ThreadPoolExecutor(...)": __exit__ calls shutdown(wait=True),
\* which joins every pool thread.
ExecutorExit ==
    /\ mainpc = "join"
    /\ AllWorkersJoined
    /\ mainpc' = "cleanup"
    /\ UNCHANGED <<success, yielded, nCompletion, stop_flag, bridgeVars, resultVars,
                   devVars, taskVars, obsVars>>
    /\ UNCHANGED <<stop_called, diagVars, textVars, reported, retVars, sessionVars>>

\* self.bridge.disconnect()
Disconnect ==
    /\ mainpc = "cleanup"
    /\ LockFree
    /\ ssh_client' = "None"
    /\ live' = IF ssh_client = "active" THEN live - 1 ELSE live
    /\ mainpc' = "complete"
    /\ UNCHANGED drops
    /\ UNCHANGED <<success, yielded, nCompletion, stop_flag, lock, resultVars,
                   devVars, taskVars, obsVars>>
    /\ UNCHANGED <<stop_called, diagVars, textVars, reported, retVars>>

\* completion_callback(self._results); return self._results
Complete ==
    /\ mainpc = "complete"
    /\ nCompletion' = nCompletion + 1
    /\ mainpc' = "returned"
    /\ UNCHANGED <<success, yielded, stop_flag, bridgeVars, resultVars, devVars,
                   taskVars, obsVars>>
    /\ UNCHANGED <<stop_called, diagVars, textVars, reported, retVars, sessionVars>>

\* ------------------------------------------------------ DeviceChecker
\* Mutant of MaxRetrySeconds: only a slave gets the long budget.
MaxRetrySecondsLongForSlaveOnly(d) ==
    IF device_type[d] = "slave" THEN SLAVE_PING_RETRY_TIMEOUT
    ELSE MASTER_PING_RETRY_TIMEOUT

\* check_ping: the retry budget of the device's role.
MaxRetrySeconds(d) ==
    IF device_type[d] = "master" THEN MASTER_PING_RETRY_TIMEOUT
    ELSE SLAVE_PING_RETRY_TIMEOUT

\* Mutant of PingStatus: the "1 received" / "50% packet loss" case is missing.
PingStatusNoPartialLoss(reply) ==
    IF reply = "0 received" THEN "PING_FAILED"
    ELSE IF reply = "bytes from" THEN "PING_OK"
    ELSE "PING_FAILED"

\* check_ping_single: the status read from the ping output.
PingStatus(reply) ==
    IF reply = "0 received" THEN "PING_FAILED"
    ELSE IF reply \in {"bytes from", "1 received"} THEN "PING_OK"
    ELSE "PING_FAILED"

\* check_ssh_port: the status read from the probe output.
PortStatus(reply) ==
    IF reply = "PORT_OPEN" THEN "SSH_PORT_OPEN"
    ELSE IF reply = "PORT_CLOSED" THEN "SSH_PORT_CLOSED"
    ELSE IF reply = "timed out" THEN "SSH_TIMEOUT"
    ELSE "SSH_PORT_CLOSED"

\* Mutant of PingBudgetSpent: "elapsed > max_retry_seconds".
PingBudgetOverrun(d) == elapsed[d] > MaxRetrySeconds(d)

\* check_ping: does the loop return PING_FAILED after a failed attempt?
PingBudgetSpent(d) == elapsed[d] >= MaxRetrySeconds(d)

\* Mutant of SshRetryLeft: "attempt <= SSH_RETRY_ATTEMPTS".
SshRetryLeftOffByOne(d) == attempt[d] <= SSH_RETRY_ATTEMPTS

\* check_ssh_port_with_retry: does the loop sleep and try again?
SshRetryLeft(d) == attempt[d] < SSH_RETRY_ATTEMPTS

\* Mutant of PingPhaseFailed: full_check goes on to the port check whatever
\* check_ping returned.
PingPhaseNeverFailed(d) == FALSE

\* full_check: "if device.ping_status != ConnectionStatus.PING_OK"
PingPhaseFailed(d) == ping_status[d] # "PING_OK"

\* check_ping after check_ping_single returned status: success returns,
\* a spent budget returns PING_FAILED, otherwise the loop sleeps.
\* full_check assigns the returned status to device.ping_status.
PingDecide(d, st) ==
    /\ IF st = "PING_OK"
       THEN /\ ping_status' = [ping_status EXCEPT ![d] = "PING_OK"]
            /\ tpc' = [tpc EXCEPT ![d] = "ping_returned"]
       ELSE IF PingBudgetSpent(d)
       THEN /\ ping_status' = [ping_status EXCEPT ![d] = "PING_FAILED"]
            /\ tpc' = [tpc EXCEPT ![d] = "ping_returned"]
       ELSE /\ tpc' = [tpc EXCEPT ![d] = "ping_sleep"]
            /\ UNCHANGED ping_status
    /\ UNCHANGED <<cmd, attempt, device_type, ssh_status, error_message>>

\* Mutant of ExhaustedStatus: the status of the last attempt is returned.
LastAttemptStatus(st) == st

\* check_ssh_port_with_retry past its loop: "return
\* ConnectionStatus.SSH_PORT_CLOSED, ...", whatever the last attempt gave.
ExhaustedStatus(st) == "SSH_PORT_CLOSED"

\* check_ssh_port_with_retry after check_ssh_port returned status.
\* full_check assigns the returned status and error.
PortDecide(d, st) ==
    /\ IF st = "SSH_PORT_OPEN"
       THEN /\ ssh_status' = [ssh_status EXCEPT ![d] = "SSH_PORT_OPEN"]
            /\ tpc' = [tpc EXCEPT ![d] = "ssh_returned"]
            /\ UNCHANGED error_message
       ELSE IF SshRetryLeft(d)
       THEN /\ tpc' = [tpc EXCEPT ![d] = "ssh_sleep"]
            /\ UNCHANGED <<ssh_status, error_message>>
       ELSE /\ ssh_status' = [ssh_status EXCEPT ![d] = ExhaustedStatus(st)]
            /\ error_message' = [error_message EXCEPT ![d] = "SSH fallito dopo"]
            /\ tpc' = [tpc EXCEPT ![d] = "ssh_returned"]
    /\ UNCHANGED <<cmd, attempt, device_type, ping_status>>

\* Mutant of NeedsFallback: the nc command is also tried when the first
\* command ran and did not report an open port.
NeedsFallbackUnlessOpen(d, ok, reply) ==
    cmd[d] = "port" /\ (~ok \/ reply # "PORT_OPEN")

\* check_ssh_port: "if not success" after the first execute_command.
NeedsFallback(d, ok, reply) == cmd[d] = "port" /\ ~ok

\* The caller of execute_command gets (success, stdout, stderr) back.
\* check_ssh_port falls back to the nc command when the first one failed.
CommandReturned(d, ok, reply) ==
    /\ exec_success' = [exec_success EXCEPT ![d] = IF ok THEN "True" ELSE "False"]
    /\ IF cmd[d] = "ping"
       THEN LET st == IF ok THEN PingStatus(reply) ELSE "ERROR"
            IN  /\ status' = [status EXCEPT ![d] = st]
                /\ PingDecide(d, st)
       ELSE IF NeedsFallback(d, ok, reply)
       THEN /\ cmd' = [cmd EXCEPT ![d] = "port_alt"]
            /\ tpc' = [tpc EXCEPT ![d] = "call"]
            /\ UNCHANGED <<attempt, devVars, status>>
       ELSE LET st == IF ok THEN PortStatus(reply) ELSE "ERROR"
            IN  /\ status' = [status EXCEPT ![d] = st]
                /\ PortDecide(d, st)

\* May a pool thread take work item d?  The queue is first in, first out and
\* the pool runs at most max_workers items at once.
CanStart(d) ==
    /\ tpc[d] = "pending"
    /\ \A e \in Devices : e < d => tpc[e] # "pending"
    /\ Cardinality({e \in Devices : Running(e)}) < PoolWidth

\* A pool thread takes the next work item and runs worker(device) up to the
\* first progress callback of full_check; check_ping then starts its clock.
WorkerStart(d) ==
    /\ CanStart(d)
    /\ IF stop_flag
       THEN tpc' = [tpc EXCEPT ![d] = "done"]
       ELSE \E raised \in BOOLEAN :
              tpc' = [tpc EXCEPT ![d] = IF raised THEN "raised" ELSE "ping_loop"]
    /\ UNCHANGED <<mainVars, stop_flag, bridgeVars, resultVars, devVars, cmd,
                   attempt, elapsed, clk, obsVars>>
    /\ UNCHANGED <<stop_called, diagVars, textVars, reported, retVars, sessionVars>>

\* check_ping: the head of the while loop, up to the progress callback.
PingAttempt(d) ==
    /\ tpc[d] = "ping_loop"
    /\ attempt' = [attempt EXCEPT ![d] = @ + 1]
    /\ elapsed' = [elapsed EXCEPT ![d] = clk[d]]
    /\ cmd' = [cmd EXCEPT ![d] = "ping"]
    /\ \E raised \in BOOLEAN :
          tpc' = [tpc EXCEPT ![d] = IF raised THEN "raised" ELSE "call"]
    /\ UNCHANGED <<mainVars, stop_flag, bridgeVars, resultVars, devVars, clk,
                   obsVars>>
    /\ UNCHANGED <<stop_called, diagVars, textVars, reported, retVars, sessionVars>>

\* time.sleep(PING_RETRY_INTERVAL)
PingSleep(d) ==
    /\ tpc[d] = "ping_sleep"
    /\ clk' = [clk EXCEPT ![d] = @ + PING_RETRY_INTERVAL]
    /\ nSleep' = [nSleep EXCEPT ![d] = @ + 1]
    /\ tpc' = [tpc EXCEPT ![d] = "ping_loop"]
    /\ UNCHANGED <<mainVars, stop_flag, bridgeVars, resultVars, devVars, cmd,
                   attempt, elapsed, nCmd, heard>>
    /\ UNCHANGED <<stop_called, diagVars, textVars, reported, retVars, sessionVars>>

\* full_check after check_ping returned: a failed ping ends the check with
\* ssh_status PENDING, a successful one enters check_ssh_port_with_retry.
\* The locals of check_ping are gone.
AfterPing(d) ==
    /\ tpc[d] = "ping_returned"
    /\ attempt' = [attempt EXCEPT ![d] = 0]
    /\ elapsed' = [elapsed EXCEPT ![d] = 0]
    /\ clk' = [clk EXCEPT ![d] = 0]
    /\ nCmd' = [nCmd EXCEPT ![d] = 0]
    /\ nSleep' = [nSleep EXCEPT ![d] = 0]
    /\ heard' = [heard EXCEPT ![d] = "nothing"]
    /\ exec_success' = [exec_success EXCEPT ![d] = "unset"]
    /\ status' = [status EXCEPT ![d] = "unset"]
    /\ IF PingPhaseFailed(d)
       THEN /\ ssh_status' = [ssh_status EXCEPT ![d] = "PENDING"]
            /\ error_message' = [error_message EXCEPT ![d] = "Ping fallito dopo"]
            /\ \E raised \in BOOLEAN :
                 tpc' = [tpc EXCEPT ![d] = IF raised THEN "raised" ELSE "append"]
       ELSE /\ \E raised \in BOOLEAN :
                 tpc' = [tpc EXCEPT ![d] = IF raised THEN "raised" ELSE "ssh_loop"]
            /\ UNCHANGED <<ssh_status, error_message>>
    /\ UNCHANGED <<mainVars, stop_flag, bridgeVars, resultVars, device_type,
                   ping_status, cmd>>
    /\ UNCHANGED <<stop_called, diagVars, textVars, reported, sessionVars>>

\* check_ssh_port_with_retry: the head of the for loop, up to the callback.
SshAttempt(d) ==
    /\ tpc[d] = "ssh_loop"
    /\ attempt' = [attempt EXCEPT ![d] = @ + 1]
    /\ cmd' = [cmd EXCEPT ![d] = "port"]
    /\ \E raised \in BOOLEAN :
          tpc' = [tpc EXCEPT ![d] = IF raised THEN "raised" ELSE "call"]
    /\ UNCHANGED <<mainVars, stop_flag, bridgeVars, resultVars, devVars,
                   elapsed, clk, obsVars>>
    /\ UNCHANGED <<stop_called, diagVars, textVars, reported, retVars, sessionVars>>

\* time.sleep(SSH_RETRY_INTERVAL)
SshSleep(d) ==
    /\ tpc[d] = "ssh_sleep"
    /\ nSleep' = [nSleep EXCEPT ![d] = @ + 1]
    /\ tpc' = [tpc EXCEPT ![d] = "ssh_loop"]
    /\ UNCHANGED <<mainVars, stop_flag, bridgeVars, resultVars, devVars, cmd,
                   attempt, elapsed, clk, nCmd, heard>>
    /\ UNCHANGED <<stop_called, diagVars, textVars, reported, retVars, sessionVars>>

\* full_check after check_ssh_port_with_retry returned, up to its return.
\* The locals of check_ssh_port_with_retry are gone.
AfterSsh(d) ==
    /\ tpc[d] = "ssh_returned"
    /\ attempt' = [attempt EXCEPT ![d] = 0]
    /\ nCmd' = [nCmd EXCEPT ![d] = 0]
    /\ nSleep' = [nSleep EXCEPT ![d] = 0]
    /\ heard' = [heard EXCEPT ![d] = "nothing"]
    /\ exec_success' = [exec_success EXCEPT ![d] = "unset"]
    /\ status' = [status EXCEPT ![d] = "unset"]
    /\ \E raised \in BOOLEAN :
          tpc' = [tpc EXCEPT ![d] = IF raised THEN "raised" ELSE "append"]
    /\ UNCHANGED <<mainVars, stop_flag, bridgeVars, resultVars, devVars, cmd,
                   elapsed, clk>>
    /\ UNCHANGED <<stop_called, diagVars, textVars, reported, sessionVars>>

\* worker: "with self._results_lock" appends the result and counts it.
AppendResult(d) ==
    /\ tpc[d] = "append"
    /\ results' = Append(results, d)
    /\ completed' = completed + 1
    /\ tpc' = [tpc EXCEPT ![d] = "notify"]
    /\ UNCHANGED <<mainVars, stop_flag, bridgeVars, devVars, cmd, attempt,
                   elapsed, clk, obsVars>>
    /\ UNCHANGED <<stop_called, diagVars, textVars, reported, retVars, sessionVars>>

\* worker: progress_callback(result, "Completato", completed[0], total)
Notify(d) ==
    /\ tpc[d] = "notify"
    /\ reported' = [reported EXCEPT ![d] = completed]
    /\ \E raised \in BOOLEAN :
          tpc' = [tpc EXCEPT ![d] = IF raised THEN "raised" ELSE "done"]
    /\ UNCHANGED <<mainVars, stop_flag, bridgeVars, resultVars, devVars, cmd,
                   attempt, elapsed, clk, obsVars>>
    /\ UNCHANGED <<stop_called, diagVars, textVars, retVars, sessionVars>>

\* ---------------------------------------------------- BridgeConnection
\* The observer's reading of a relay answer: a ping that came back ("bytes
\* from", or "1 received" of the 2 packets) or an open port is the answer the
\* retry loop waits for; "0 received" leaves "nothing" heard, any other
\* failing ping is "noise"; a port probe that fails changes nothing.
Hearing(before, command, reply) ==
    IF reply \in {"bytes from", "1 received", "PORT_OPEN"} THEN "answer"
    ELSE IF reply \in {"0 received", "PORT_CLOSED"} THEN before
    ELSE IF command # "ping" THEN before
    ELSE "noise"

\* Mutant of TransportActive: a handle is enough.
HandleExists == ssh_client # "None"

\* is_connected: the client exists, has a transport and the transport
\* is_active().
TransportActive == ssh_client = "active"

\* Mutant of AlreadyConnected: connect() always opens a session.
AlreadyConnectedNever == FALSE

\* connect: the guard "Già connesso" under the lock.
AlreadyConnected == ssh_client = "active"

\* The transport of the session dies (the relay or the network went away).
TransportDrop ==
    /\ ssh_client = "active"
    /\ drops < MaxDrops
    /\ ssh_client' = "inactive"
    /\ live' = live - 1
    /\ drops' = drops + 1
    /\ UNCHANGED <<mainVars, stop_flag, lock, resultVars, devVars, taskVars,
                   obsVars>>
    /\ UNCHANGED <<stop_called, diagVars, textVars, reported, retVars>>

\* Mutant of ReleasedAfterCheck: the caller goes on with the lock held.
HeldAfterCheck(d) == d

\* is_connected: leaving "with self._lock" releases the lock before
\* execute_command goes on to connect() or to its own "with self._lock".
ReleasedAfterCheck(d) == 0

\* execute_command: "if not self.is_connected()", under the lock.
IsConnected(d) ==
    /\ tpc[d] = "call"
    /\ LockFree
    /\ tpc' = [tpc EXCEPT ![d] = IF TransportActive THEN "exec" ELSE "connect"]
    /\ lock' = ReleasedAfterCheck(d)
    /\ UNCHANGED <<mainVars, stop_flag, ssh_client, resultVars, devVars, cmd,
                   attempt, elapsed, clk, obsVars>>
    /\ UNCHANGED <<stop_called, diagVars, textVars, reported, retVars, sessionVars>>

\* execute_command: the lazy connect() after is_connected() said no; a
\* failed connect is what execute_command returns.  Reached only once the
\* session has dropped.
Connect(d) ==
    /\ tpc[d] = "connect"
    /\ LockFree
    /\ IF AlreadyConnected
       THEN /\ tpc' = [tpc EXCEPT ![d] = "exec"]
            /\ UNCHANGED <<ssh_client, cmd, attempt, devVars, heard, retVars, live>>
       ELSE \/ /\ ssh_client' = "active"
               /\ live' = live + 1
               /\ tpc' = [tpc EXCEPT ![d] = "exec"]
               /\ UNCHANGED <<cmd, attempt, devVars, heard, retVars>>
            \/ /\ ssh_client' = "inactive"
               /\ CommandReturned(d, FALSE, "exception")
               /\ heard' = [heard EXCEPT ![d] = Hearing(heard[d], cmd[d], "exception")]
               /\ UNCHANGED live
    /\ UNCHANGED <<mainVars, stop_flag, lock, resultVars, elapsed, clk, nCmd,
                   nSleep, drops>>
    /\ UNCHANGED <<stop_called, diagVars, textVars, reported>>

\* execute_command: "with self._lock" is entered and exec_command is called.
\* On a session that is gone exec_command raises and the lock is released.
Exec(d) ==
    /\ tpc[d] = "exec"
    /\ LockFree
    /\ IF ssh_client = "active"
       THEN /\ lock' = d
            /\ tpc' = [tpc EXCEPT ![d] = "read"]
            /\ nCmd' = [nCmd EXCEPT ![d] = IF cmd[d] = "port_alt" THEN @ ELSE @ + 1]
            /\ UNCHANGED <<cmd, attempt, devVars, heard, retVars>>
       ELSE /\ CommandReturned(d, FALSE, "exception")
            /\ heard' = [heard EXCEPT ![d] = Hearing(heard[d], cmd[d], "exception")]
            /\ UNCHANGED <<lock, nCmd>>
    /\ UNCHANGED <<mainVars, stop_flag, ssh_client, resultVars, elapsed, clk,
                   nSleep>>
    /\ UNCHANGED <<stop_called, diagVars, textVars, reported, sessionVars>>

\* execute_command: stdout and stderr are read, the lock is released and the
\* result goes back to the caller.  The clock of check_ping has moved on by
\* the time the command took.
Read(d, env) ==
    /\ tpc[d] = "read"
    /\ lock' = 0
    /\ IF cmd[d] = "ping"
       THEN \E lat \in env.lat : clk' = [clk EXCEPT ![d] = @ + lat]
       ELSE UNCHANGED clk
    /\ \E reply \in (IF cmd[d] = "ping" THEN env.ping ELSE env.port) :
          /\ CommandReturned(d, reply # "exception", reply)
          /\ heard' = [heard EXCEPT ![d] = Hearing(heard[d], cmd[d], reply)]
    /\ UNCHANGED <<mainVars, stop_flag, ssh_client, resultVars, elapsed,
                   nCmd, nSleep>>
    /\ UNCHANGED <<stop_called, diagVars, textVars, reported, sessionVars>>

\* ------------------------------------------------------ specifications
TaskStep(d, env) ==
    \/ WorkerStart(d)
    \/ PingAttempt(d)
    \/ PingSleep(d)
    \/ AfterPing(d)
    \/ SshAttempt(d)
    \/ SshSleep(d)
    \/ AfterSsh(d)
    \/ AppendResult(d)
    \/ Notify(d)
    \/ IsConnected(d)
    \/ Exec(d)
    \/ Read(d, env)

Next ==
    \/ Stop
    \/ CheckDevicesConnect
    \/ Submit
    \/ \E d \in Devices : Collect(d)
    \/ CollectEnd
    \/ ExecutorExit
    \/ Disconnect
    \/ Complete
    \/ \E d \in Devices : TaskStep(d, FleetEnv)

Spec == Init /\ [][Next]_vars

\* One device probed by one pool thread over a session that stays up, with
\* the clock resolved to the second.
InitProbe ==
    /\ mainpc = "collect"
    /\ success = "True"
    /\ stop_flag = FALSE
    /\ ssh_client = "active"
    /\ lock = 0
    /\ results = <<>>
    /\ completed = 0
    /\ yielded = {}
    /\ \E role \in {"master", "slave", "unknown"} :
          device_type = [d \in Devices |-> IF d = NumDevices THEN role ELSE "master"]
    /\ ping_status = [d \in Devices |-> "PENDING"]
    /\ ssh_status = [d \in Devices |-> "PENDING"]
    /\ error_message = [d \in Devices |-> ""]
    /\ tpc = [d \in Devices |-> IF d = NumDevices THEN "pending" ELSE "cancelled"]
    /\ cmd = [d \in Devices |-> "none"]
    /\ attempt = [d \in Devices |-> 0]
    /\ elapsed = [d \in Devices |-> 0]
    /\ clk = [d \in Devices |-> 0]
    /\ exec_success = [d \in Devices |-> "unset"]
    /\ status = [d \in Devices |-> "unset"]
    /\ NoObservations
    /\ live = 1
    /\ drops = 0
    /\ stop_called = FALSE
    /\ NoDiagnosticThread
    /\ NoText

NextProbe == \E d \in Devices : TaskStep(d, ProbeEnv)

SpecProbe == InitProbe /\ [][NextProbe]_vars

\* Two pool threads of one batch sharing a relay session whose transport may
\* die: check_devices has connected and submitted the work items, and the
\* relay answers every command it gets.
BridgeEnv == [lat |-> {SLAVE_PING_RETRY_TIMEOUT},
              ping |-> {"bytes from"},
              port |-> {"PORT_OPEN"}]

InitBridge ==
    /\ mainpc = "collect"
    /\ success = "True"
    /\ stop_flag = FALSE
    /\ ssh_client = "active"
    /\ lock = 0
    /\ results = <<>>
    /\ completed = 0
    /\ yielded = {}
    /\ device_type = [d \in Devices |-> "master"]
    /\ ping_status = [d \in Devices |-> "PENDING"]
    /\ ssh_status = [d \in Devices |-> "PENDING"]
    /\ error_message = [d \in Devices |-> ""]
    /\ tpc = [d \in Devices |->
                IF d >= NumDevices - 1 THEN "pending" ELSE "cancelled"]
    /\ cmd = [d \in Devices |-> "none"]
    /\ attempt = [d \in Devices |-> 0]
    /\ elapsed = [d \in Devices |-> 0]
    /\ clk = [d \in Devices |-> 0]
    /\ exec_success = [d \in Devices |-> "unset"]
    /\ status = [d \in Devices |-> "unset"]
    /\ NoObservations
    /\ live = 1
    /\ drops = 0
    /\ stop_called = FALSE
    /\ NoDiagnosticThread
    /\ NoText

\* A step of the pool thread that runs work item d.
BridgeTaskStep(d) == Connect(d) \/ TaskStep(d, BridgeEnv)

\* A step of the thread inside check_devices, from the as_completed loop on.
ScannerStep ==
    \/ \E d \in Devices : Collect(d)
    \/ CollectEnd
    \/ ExecutorExit
    \/ Disconnect
    \/ Complete

NextBridge ==
    \/ TransportDrop
    \/ \E d \in Devices : BridgeTaskStep(d)
    \/ ScannerStep

SpecBridge == InitBridge /\ [][NextBridge]_vars

\* The same with the scheduling of threads: a thread that can run does run,
\* and the work of every thread is bounded, so a thread that waits for the
\* relay lock finds it free in the end.
SpecBridgeFair ==
    /\ SpecBridge
    /\ \A d \in Devices : WF_vars(BridgeTaskStep(d))
    /\ WF_vars(ScannerStep)

\* ------------------------------------------------ MalfunctionClassifier
\* A tri-state attribute Python holds as None, True or False.
TriState == {"None", "True", "False"}

\* _check_ssh / _check_ping
CheckSsh(d) == ssh_status[d] = "SSH_PORT_OPEN"
CheckPing(d) == ping_status[d] = "PING_OK"

\* Mutant of BuildConnectivityNote: a closed port is left out of the note.
BuildConnectivityNotePingOnly(ping_ok, ssh_ok) ==
    IF ping_ok THEN <<>> ELSE <<"Ping KO">>

\* _build_connectivity_note: the issues that ", ".join puts together.
BuildConnectivityNote(ping_ok, ssh_ok) ==
    (IF ping_ok THEN <<>> ELSE <<"Ping KO">>)
        \o (IF ssh_ok THEN <<>> ELSE <<"SSH KO">>)

\* Mutant of DoorOpenRule: the battery alarm is looked at first.
DoorOpenRuleAfterBattery(d) == door_open[d] = "True" /\ battery_ok[d] # "False"

\* classify, rule 1: "if door_open is True"
DoorOpenRule(d) == door_open[d] = "True"

\* Mutant of BatteryRule: a battery that is not confirmed good is an alarm.
BatteryRuleNotTrue(d) == battery_ok[d] # "True"

\* classify, rule 2: "if battery_ok is False"
BatteryRule(d) == battery_ok[d] = "False"

\* Mutant of ActiveRule: data that is not confirmed absent counts as data.
ActiveRuleNotFalse(d) == mongodb_has_data[d] # "False"

\* classify, rule 3: "if mongodb_ok is True"
ActiveRule(d) == mongodb_has_data[d] = "True"

\* Mutant of OfflineRule: the "elif mongodb_ok is None" branch is missing.
OfflineRuleConfirmedOnly(d) ==
    ~CheckPing(d) /\ ~CheckSsh(d) /\ mongodb_has_data[d] = "False"

\* classify, rule 4: "if not ping_ok and not ssh_ok", then mongodb_ok False
\* or None (it is not True here).
OfflineRule(d) ==
    /\ ~CheckPing(d) /\ ~CheckSsh(d)
    /\ mongodb_has_data[d] \in {"False", "None"}

\* Mutant of LinkDownRule: the rule is missing.
LinkDownRuleMissing(d) == FALSE

\* classify, rule 5: "if lte_ok is False and mongodb_ok is False"
LinkDownRule(d) == lte_ok[d] = "False" /\ mongodb_has_data[d] = "False"

\* Mutant of Responding: only the link state counts.
RespondingByLinkOnly(d) == lte_ok[d] = "True"

\* classify, rule 6: "if ssh_ok or ping_ok or lte_ok"
Responding(d) == CheckSsh(d) \/ CheckPing(d) \/ lte_ok[d] = "True"

\* Mutant of LinkUpRule: "lte_ok is not False".
LinkUpRuleNotFalse(d) == lte_ok[d] # "False"

\* classify, rule 8: "if lte_ok is True"
LinkUpRule(d) == lte_ok[d] = "True"

\* MalfunctionClassifier.classify: the pair (malfunction_type,
\* connectivity_note), the note as the sequence of its parts.
classify(d) ==
    LET ssh_ok == CheckSsh(d)
        ping_ok == CheckPing(d)
        connectivity_note == BuildConnectivityNote(ping_ok, ssh_ok)
    IN  IF DoorOpenRule(d) THEN <<"Porta aperta", connectivity_note>>
        ELSE IF BatteryRule(d) THEN <<"Allarme batteria", connectivity_note>>
        ELSE IF ActiveRule(d)
        THEN IF ~ping_ok \/ ~ssh_ok
             THEN <<"OK", IF connectivity_note # <<>>
                          THEN <<"Non raggiungibile">> \o connectivity_note
                          ELSE <<>> >>
             ELSE <<"OK", <<>> >>
        ELSE IF OfflineRule(d) THEN <<"Disconnesso", connectivity_note>>
        ELSE IF LinkDownRule(d) THEN <<"Disconnesso", connectivity_note>>
        ELSE IF mongodb_has_data[d] = "False"
        THEN IF Responding(d)
             THEN <<"Metriche assenti", connectivity_note>>
             ELSE <<"Disconnesso", connectivity_note>>
        ELSE IF ssh_ok THEN <<"OK", <<>> >>
        ELSE IF LinkUpRule(d)
        THEN <<"OK", IF ~ping_ok \/ ~ssh_ok THEN connectivity_note ELSE <<>> >>
        ELSE <<"Non classificato", connectivity_note>>

\* ----------------------------------------------- DiagnosticWorkerThread
\* How a call of DigilAPIClient.get_device_diagnostics can end, and the facts
\* _parse_diagnostics reads from a 200 answer: lte_ok is a comparison, the
\* other two stay None when the answer has no such alarm.
ApiOutcomes == {"no_token", "http_error", "exception", "ok"}
ApiFacts == [battery_ok : TriState, door_open : TriState, lte_ok : {"True", "False"}]

\* How the aggregate() of MongoDBChecker.check_device can end.
MongoOutcomes == {"data", "no_data", "query_error"}

\* get_device_diagnostics: None without a token; a dict that has only an
\* "error" key for a non-200 status or an exception; else the parsed facts.
\* The fields are what api_result.get(key, None) gives.
GetDeviceDiagnostics(outcome, facts) ==
    IF outcome = "no_token"
    THEN [value |-> "None", battery_ok |-> "None", door_open |-> "None",
          lte_ok |-> "None"]
    ELSE IF outcome = "ok"
    THEN [value |-> "dict", battery_ok |-> facts.battery_ok,
          door_open |-> facts.door_open, lte_ok |-> facts.lte_ok]
    ELSE [value |-> "dict", battery_ok |-> "None", door_open |-> "None",
          lte_ok |-> "None"]

\* MongoCheckResult(device_id=device_id): the dataclass defaults.
MongoCheckResult == [has_data_24h |-> FALSE, checked |-> FALSE, error |-> ""]

\* check_device: the result after the query.
CheckDevice(outcome) ==
    IF outcome = "data"
    THEN [MongoCheckResult EXCEPT !.has_data_24h = TRUE, !.checked = TRUE]
    ELSE IF outcome = "no_data"
    THEN [MongoCheckResult EXCEPT !.has_data_24h = FALSE, !.checked = TRUE]
    ELSE [MongoCheckResult EXCEPT !.error = "query failed"]

\* A Python bool as the attribute value the classifier reads.
PyBool(b) == IF b THEN "True" ELSE "False"

\* Mutant of FusionGoesOn: a failed collaborator call ends the stage.
FusionStopsOnFailure(failed) == ~failed

\* _run_api_checks / _run_mongodb_checks: does the device loop go on after
\* this device?  The collaborators hand their failures back as values and
\* the loop body sits in a try / except Exception of its own.
FusionGoesOn(failed) == TRUE

\* DiagnosticWorkerThread.stop()
RequestStop ==
    /\ dpc \notin {"idle", "finished", "failed", "errored"}
    /\ ~stop_requested
    /\ stop_requested' = TRUE
    /\ stop_flag' = TRUE
    /\ stop_called' = TRUE
    /\ UNCHANGED <<checkerVars, textVars, dpc, idx, check_api, signalVars, check_mongodb,
                   factVars, noteVars, malfunction_type, fusionObsVars>>

\* run: "if self.check_api and not self._stop_requested"
Phase2 ==
    /\ dpc = "phase2"
    /\ IF check_api /\ ~stop_requested
       THEN dpc' = "api_loop" /\ idx' = 1
       ELSE dpc' = "phase3" /\ UNCHANGED idx
    /\ UNCHANGED <<checkerVars, stop_called, textVars, stop_flag,
                   stop_requested, check_api, signalVars,
                   check_mongodb, factVars, noteVars, malfunction_type,
                   fusionObsVars>>

\* _run_api_checks: one pass of the device loop, or its end.
ApiCheck ==
    /\ dpc = "api_loop"
    /\ IF idx > Len(results) \/ stop_requested
       THEN /\ dpc' = "phase3"
            /\ UNCHANGED <<idx, battery_ok, door_open, lte_ok, apiCalled,
                           apiFailed>>
       ELSE \E outcome \in ApiOutcomes, facts \in ApiFacts :
            LET d == results[idx]
                api_result == GetDeviceDiagnostics(outcome, facts)
            IN  /\ apiCalled' = apiCalled \cup {d}
                /\ apiFailed' = IF outcome = "ok" THEN apiFailed
                                ELSE apiFailed \cup {d}
                /\ IF api_result.value # "None"
                   THEN /\ battery_ok' = [battery_ok EXCEPT ![d] = api_result.battery_ok]
                        /\ door_open' = [door_open EXCEPT ![d] = api_result.door_open]
                        /\ lte_ok' = [lte_ok EXCEPT ![d] = api_result.lte_ok]
                   ELSE UNCHANGED <<battery_ok, door_open, lte_ok>>
                /\ IF FusionGoesOn(outcome # "ok")
                   THEN idx' = idx + 1 /\ UNCHANGED dpc
                   ELSE dpc' = "failed" /\ UNCHANGED idx
    /\ UNCHANGED <<checkerVars, stop_called, textVars, stop_flag,
                   stop_requested, check_api, signalVars,
                   check_mongodb, mongodb_has_data, noteVars, malfunction_type,
                   mongoCalled, mongoFailed>>

\* run: "if self.check_mongodb and not self._stop_requested"
Phase3 ==
    /\ dpc = "phase3"
    /\ dpc' = IF check_mongodb /\ ~stop_requested THEN "tunnel" ELSE "phase4"
    /\ UNCHANGED <<checkerVars, stop_called, textVars, stop_flag,
                   idx, stop_requested, check_api, signalVars,
                   check_mongodb, factVars, noteVars, malfunction_type,
                   fusionObsVars>>

\* _run_mongodb_checks: get_tunnel_manager() and
\* tunnel_manager.start_tunnel().  SSHTunnelManager() parses MONGO_URI and
\* raises ValueError on a port that is no number: no ImportError, so it
\* leaves the stage and reaches the handler of run.  When start_tunnel
\* reports a failure every device gets the note and the stage returns.
StartTunnel ==
    /\ dpc = "tunnel"
    /\ \/ dpc' = "mongo_connect" /\ UNCHANGED mongodb_error
       \/ dpc' = "raised" /\ UNCHANGED mongodb_error
       \/ /\ mongodb_error' = [d \in Devices |->
                IF \E i \in 1..Len(results) : results[i] = d
                THEN "Tunnel SSH fallito" ELSE mongodb_error[d]]
          /\ dpc' = "phase4"
    /\ UNCHANGED <<checkerVars, stop_called, textVars, stop_flag,
                   idx, stop_requested, check_api, signalVars,
                   check_mongodb, factVars, api_error, malfunction_type,
                   fusionObsVars>>

\* _run_mongodb_checks: mongo_checker.connect(); on failure as above.
MongoConnect ==
    /\ dpc = "mongo_connect"
    /\ \/ dpc' = "mongo_loop" /\ idx' = 1 /\ UNCHANGED mongodb_error
       \/ /\ mongodb_error' = [d \in Devices |->
                IF \E i \in 1..Len(results) : results[i] = d
                THEN "Connessione MongoDB fallita" ELSE mongodb_error[d]]
          /\ dpc' = "phase4"
          /\ UNCHANGED idx
    /\ UNCHANGED <<checkerVars, stop_called, textVars, stop_flag,
                   stop_requested, check_api, signalVars,
                   check_mongodb, factVars, api_error, malfunction_type,
                   fusionObsVars>>

\* _run_mongodb_checks: one pass of the device loop, or its end with
\* mongo_checker.disconnect().
MongoCheck ==
    /\ dpc = "mongo_loop"
    /\ IF idx > Len(results) \/ stop_requested
       THEN /\ dpc' = "phase4"
            /\ UNCHANGED <<idx, mongodb_has_data, mongodb_error, mongoCalled,
                           mongoFailed>>
       ELSE \E outcome \in MongoOutcomes :
            LET d == results[idx]
                mongo_result == CheckDevice(outcome)
            IN  /\ mongoCalled' = mongoCalled \cup {d}
                /\ mongoFailed' = IF outcome = "query_error"
                                  THEN mongoFailed \cup {d} ELSE mongoFailed
                /\ mongodb_has_data' = [mongodb_has_data EXCEPT
                                          ![d] = PyBool(mongo_result.has_data_24h)]
                /\ IF mongo_result.error # ""
                   THEN mongodb_error' = [mongodb_error EXCEPT
                                           ![d] = mongo_result.error]
                   ELSE UNCHANGED mongodb_error
                /\ IF FusionGoesOn(outcome = "query_error")
                   THEN idx' = idx + 1 /\ UNCHANGED dpc
                   ELSE dpc' = "failed" /\ UNCHANGED idx
    /\ UNCHANGED <<checkerVars, stop_called, textVars, stop_flag,
                   stop_requested, check_api, signalVars,
                   check_mongodb, battery_ok, door_open, lte_ok, api_error,
                   malfunction_type, apiCalled, apiFailed>>

\* run: "if not self._stop_requested" before _classify_malfunctions
Phase4 ==
    /\ dpc = "phase4"
    /\ IF ~stop_requested
       THEN dpc' = "classify_loop" /\ idx' = 1
       ELSE dpc' = "emit" /\ UNCHANGED idx
    /\ UNCHANGED <<checkerVars, stop_called, textVars, stop_flag,
                   stop_requested, check_api, signalVars,
                   check_mongodb, factVars, noteVars, malfunction_type,
                   fusionObsVars>>

\* _classify_malfunctions: one pass of "for device in devices", or its end.
ClassifyDevice ==
    /\ dpc = "classify_loop"
    /\ IF idx > Len(results)
       THEN dpc' = "emit" /\ UNCHANGED <<idx, malfunction_type>>
       ELSE /\ malfunction_type' = [malfunction_type EXCEPT
                                     ![results[idx]] = classify(results[idx])]
            /\ idx' = idx + 1
            /\ UNCHANGED dpc
    /\ UNCHANGED <<checkerVars, stop_called, textVars, stop_flag,
                   stop_requested, check_api, signalVars,
                   check_mongodb, factVars, noteVars, fusionObsVars>>

\* run: self.completed_signal.emit(results)
EmitCompleted ==
    /\ dpc = "emit"
    /\ dpc' = "finished"
    /\ signals' = Append(signals, "completed")
    /\ completed_results' = results
    /\ UNCHANGED <<checkerVars, stop_called, textVars, stop_flag, idx,
                   stop_requested, check_api, check_mongodb, factVars,
                   noteVars, malfunction_type, fusionObsVars>>

\* Mutant of EmitError: the handler falls through to the completed signal.
EmitErrorThenCompleted ==
    /\ dpc = "raised"
    /\ dpc' = "errored"
    /\ signals' = signals \o <<"error", "completed">>
    /\ completed_results' = results
    /\ UNCHANGED <<checkerVars, stop_called, textVars, stop_flag, idx,
                   stop_requested, check_api, check_mongodb, factVars,
                   noteVars, malfunction_type, fusionObsVars>>

\* run: "except Exception as e: self.error_signal.emit(str(e))"
EmitError ==
    /\ dpc = "raised"
    /\ dpc' = "errored"
    /\ signals' = Append(signals, "error")
    /\ UNCHANGED <<checkerVars, stop_called, textVars, stop_flag, idx,
                   stop_requested, check_api, check_mongodb, factVars,
                   noteVars, malfunction_type, fusionObsVars,
                   completed_results>>

\* check_devices has returned a fully probed roster to run.
AfterCheckDevices ==
    /\ mainpc = "returned"
    /\ success = "True"
    /\ stop_flag = FALSE
    /\ ssh_client = "None"
    /\ lock = 0
    /\ results = MarkedDevices
    /\ completed = NumDevices
    /\ yielded = Devices
    /\ device_type = [d \in Devices |-> IF d % 2 = 1 THEN "master" ELSE "slave"]
    /\ tpc = [d \in Devices |-> "done"]
    /\ cmd = [d \in Devices |-> "ping"]
    /\ attempt = [d \in Devices |-> 0]
    /\ elapsed = [d \in Devices |-> 0]
    /\ clk = [d \in Devices |-> 0]
    /\ nCmd = [d \in Devices |-> 0]
    /\ nSleep = [d \in Devices |-> 0]
    /\ heard = [d \in Devices |-> "nothing"]
    /\ nCompletion = 1
    /\ reported = [d \in Devices |-> 0]
    /\ exec_success = [d \in Devices |-> "unset"]
    /\ status = [d \in Devices |-> "unset"]
    /\ live = 0
    /\ drops = 0
    /\ stop_called = FALSE
    /\ NoText

\* The fusion stages of run over a roster in which the odd devices answered
\* and the even ones did not.
InitDiag ==
    /\ AfterCheckDevices
    /\ ping_status = [d \in Devices |-> IF d % 2 = 1 THEN "PING_OK" ELSE "PING_FAILED"]
    /\ ssh_status = [d \in Devices |-> IF d % 2 = 1 THEN "SSH_PORT_OPEN" ELSE "PENDING"]
    /\ error_message = [d \in Devices |-> IF d % 2 = 1 THEN "" ELSE "Ping fallito dopo"]
    /\ dpc = "phase2"
    /\ idx = 0
    /\ stop_requested = FALSE
    /\ check_api \in BOOLEAN
    /\ check_mongodb \in BOOLEAN
    /\ NoFusionState

NextDiag ==
    \/ RequestStop
    \/ Phase2
    \/ ApiCheck
    \/ Phase3
    \/ StartTunnel
    \/ MongoConnect
    \/ MongoCheck
    \/ Phase4
    \/ ClassifyDevice
    \/ EmitCompleted
    \/ EmitError

SpecDiag == InitDiag /\ [][NextDiag]_vars

\* run from phase 2 on: every step of the QThread but the stop request,
\* which comes from the GUI thread.
RunStep ==
    \/ Phase2
    \/ ApiCheck
    \/ Phase3
    \/ StartTunnel
    \/ MongoConnect
    \/ MongoCheck
    \/ Phase4
    \/ ClassifyDevice
    \/ EmitCompleted
    \/ EmitError

\* The started QThread keeps running run, and every collaborator call
\* returns or raises (the HTTP calls and the tunnel carry timeouts).
SpecDiagFair == SpecDiag /\ WF_vars(RunStep)

\* classify applied to one record, the last of the roster, whose statuses
\* and facts take every value.
PingStatuses == {"PING_OK", "PING_FAILED", "ERROR", "PENDING", "VPN_ERROR"}
SshStatuses == {"SSH_PORT_OPEN", "SSH_PORT_CLOSED", "PENDING", "VPN_ERROR"}

InitClassify ==
    /\ AfterCheckDevices
    /\ \E ps \in PingStatuses, ss \in SshStatuses :
          /\ ping_status = [d \in Devices |-> IF d = NumDevices THEN ps ELSE "PING_OK"]
          /\ ssh_status = [d \in Devices |-> IF d = NumDevices THEN ss ELSE "SSH_PORT_OPEN"]
    /\ error_message = [d \in Devices |-> ""]
    /\ dpc = "classify_loop"
    /\ idx = NumDevices
    /\ stop_requested = FALSE
    /\ check_api = TRUE
    /\ check_mongodb = TRUE
    /\ \E b, o, l, m \in TriState :
          /\ battery_ok = [d \in Devices |-> IF d = NumDevices THEN b ELSE "True"]
          /\ door_open = [d \in Devices |-> IF d = NumDevices THEN o ELSE "False"]
          /\ lte_ok = [d \in Devices |-> IF d = NumDevices THEN l ELSE "True"]
          /\ mongodb_has_data = [d \in Devices |-> IF d = NumDevices THEN m ELSE "True"]
    /\ api_error = [d \in Devices |-> ""]
    /\ mongodb_error = [d \in Devices |-> ""]
    /\ malfunction_type = [d \in Devices |->
                             IF d = NumDevices THEN <<>> ELSE <<"OK", <<>> >>]
    /\ apiCalled = Devices
    /\ apiFailed = {}
    /\ mongoCalled = Devices
    /\ mongoFailed = {}
    /\ signals = <<>>
    /\ completed_results = <<>>

NextClassify ==
    \/ ClassifyDevice
    \/ EmitCompleted

SpecClassify == InitClassify /\ [][NextClassify]_vars

\* ============================================================== claims
InBatch == mainpc \in {"collect", "join", "cleanup", "complete"}

\* A step in which task d invokes the progress callback: the callback sites
\* of worker, full_check, check_ping and check_ssh_port_with_retry.
ProgressCallbackInvoked(d) ==
    \/ tpc[d] = "pending" /\ tpc'[d] \in {"ping_loop", "raised"}
    \/ /\ tpc[d] \in {"ping_loop", "ping_returned", "ssh_loop", "ssh_returned",
                      "notify"}
       /\ tpc'[d] # tpc[d]

\* worker(d) ran full_check to its end: the result was appended, or the
\* worker ended by raising.
ProbedToCompletion(d) ==
    \/ \E i \in 1..Len(results) : results[i] = d
    \/ tpc[d] = "raised"

\* C1: at most one task is between exec_command and the end of its reads of
\* stdout and stderr on the shared BridgeConnection.
C1_OneCommandAtATime ==
    /\ Cardinality({d \in Devices : tpc[d] = "read"}) <= 1
    /\ \A d \in Devices : tpc[d] = "read" <=> lock = d

\* C1 witness: one task is reading its command's output while another one
\* stands before "with self._lock" with its own command.
C1_Contended ==
    \E d, e \in Devices : d # e /\ tpc[d] = "read" /\ tpc[e] = "exec"

\* C2: when the initial connect() fails, check_devices has returned all N
\* devices in input order, each VPN_ERROR / VPN_ERROR with the connect
\* failure message, the completion callback has run once, and no worker was
\* ever submitted, so no ping or port-check command was issued - in that
\* state and in every later one.
C2_RelayUnreachable ==
    success = "False" =>
        /\ mainpc = "returned"
        /\ Len(results) = NumDevices
        /\ \A d \in Devices : results[d] = d
        /\ \E msg \in ConnectErrors : \A d \in Devices :
              /\ ping_status[d] = "VPN_ERROR"
              /\ ssh_status[d] = "VPN_ERROR"
              /\ error_message[d] = msg
        /\ \A d \in Devices : tpc[d] = "unsubmitted" /\ nCmd[d] = 0
        /\ lock = 0
        /\ nCompletion = 1

\* C2 witness: a failed connect(), with stop() called afterwards.
C2_FailedConnect == success = "False" /\ mainpc = "returned" /\ stop_flag

\* C3 as claimed: once the stop flag is raised during a batch, no further
\* record reaches the result list and the progress callback is not invoked
\* again.  The code violates it: a worker looks at the flag only before it
\* starts a device.
C3_NothingAfterStop ==
    [][(stop_flag /\ InBatch) =>
          /\ results' = results
          /\ \A d \in Devices : ~ProgressCallbackInvoked(d)]_vars

\* C4 as claimed: once the stop flag is raised, a task that has an attempt
\* under way starts no further ping or port-check attempt.  The code
\* violates it: neither retry loop reads the flag.
C4_NoAttemptAfterStop ==
    [][\A d \in Devices :
          (stop_flag /\ InBatch /\ attempt[d] >= 1) => attempt'[d] <= attempt[d]]_vars

\* C5 as claimed, for every run: when check_devices has returned, a device
\* whose worker raised is marked ERROR with the exception text and every
\* other device was probed to completion.  A cancelled run violates it.
C5_RaisedIsMarkedAlways ==
    (mainpc = "returned" /\ success = "True") =>
        \A d \in Devices : tpc[d] = "raised" =>
            /\ ping_status[d] = "ERROR"
            /\ error_message[d] = "exception"
            /\ \A e \in Devices \ {d} : ProbedToCompletion(e)

\* C5 amended: in a run that is not cancelled (the stop flag is not raised
\* before check_devices returns), check_devices returns, a device whose
\* worker raised is marked ERROR with the exception text and every other
\* device was probed to completion.
C5_RaisedIsMarked ==
    (mainpc = "returned" /\ success = "True" /\ ~stop_flag) =>
        \A d \in Devices : tpc[d] = "raised" =>
            /\ ping_status[d] = "ERROR"
            /\ error_message[d] = "exception"
            /\ \A e \in Devices \ {d} : ProbedToCompletion(e)

\* C5 witness: an uncancelled run has returned; one worker raised before its
\* result was appended and another device's result is in the list.
C5_OneRaisedOneProbed ==
    /\ mainpc = "returned" /\ success = "True" /\ ~stop_flag
    /\ \E d, e \in Devices :
          /\ tpc[d] = "raised" /\ \A i \in 1..Len(results) : results[i] # d
          /\ tpc[e] = "done" /\ \E i \in 1..Len(results) : results[i] = e

\* C6 as claimed: whenever check_devices has returned, the BridgeConnection
\* holds no session handle.  The early return after a failed connect()
\* violates it: disconnect() is not called and ssh_client keeps the
\* SSHClient that connect() created.
C6_TornDownOnReturn == mainpc = "returned" => ssh_client = "None"

\* C7: the completion callback is invoked exactly once per run of
\* check_devices, and once it has been invoked no worker is running or still
\* to run, so nothing is appended and no progress callback follows.
C7_CompletionOnceAfterWorkers ==
    /\ nCompletion <= 1
    /\ mainpc = "returned" <=> nCompletion = 1
    /\ nCompletion = 1 => \A d \in Devices : ~Running(d) /\ tpc[d] # "pending"

\* C7 witness: the completion callback has fired in a cancelled run in which
\* a worker finished its device after the flag was raised.
C7_CompletedAfterCancel ==
    /\ nCompletion = 1 /\ stop_flag /\ success = "True"
    /\ Len(results) >= 1
    /\ \E d \in Devices : tpc[d] = "cancelled"

\* C8 as claimed: with a relay that answers every ping "0 received",
\* check_ping returns PING_FAILED after budget / interval attempts, and the
\* last attempt started before the budget had elapsed.
C8_AttemptsAreBudgetOverInterval ==
    \A d \in Devices :
        (tpc[d] = "ping_returned" /\ ping_status[d] = "PING_FAILED"
           /\ heard[d] = "nothing"
           /\ elapsed[d] = (attempt[d] - 1) * PING_RETRY_INTERVAL) =>
            /\ attempt[d] = MaxRetrySeconds(d) \div PING_RETRY_INTERVAL
            /\ elapsed[d] < MaxRetrySeconds(d)

\* C8 amended: with a relay that answers every ping "0 received", check_ping
\* returns PING_FAILED after the first attempt that starts once the budget
\* has elapsed (elapsed >= budget at its start); every earlier attempt
\* started within the budget, so exactly one attempt starts at or past it;
\* the number of attempts is at most budget / interval + 1, and is exactly
\* that (31 for a master, 121 for a slave) when the commands take no time.
C8_FailsOneAttemptPastBudget ==
    \A d \in Devices :
        /\ tpc[d] = "ping_sleep" => elapsed[d] < MaxRetrySeconds(d)
        /\ (tpc[d] = "ping_returned" /\ ping_status[d] = "PING_FAILED"
              /\ heard[d] = "nothing") =>
               /\ elapsed[d] >= MaxRetrySeconds(d)
               /\ nCmd[d] = attempt[d]
               /\ nSleep[d] = attempt[d] - 1
               /\ attempt[d] <= MaxRetrySeconds(d) \div PING_RETRY_INTERVAL + 1
               /\ elapsed[d] = (attempt[d] - 1) * PING_RETRY_INTERVAL =>
                     attempt[d] = MaxRetrySeconds(d) \div PING_RETRY_INTERVAL + 1

\* C8 witness: a slave that never answered, probed with commands that took
\* no time: PING_FAILED after 121 attempts, the last one started at 1200 s.
C8_SlaveGivesUp ==
    \E d \in Devices :
        /\ tpc[d] = "ping_returned" /\ ping_status[d] = "PING_FAILED"
        /\ heard[d] = "nothing" /\ device_type[d] = "slave"
        /\ elapsed[d] = SLAVE_PING_RETRY_TIMEOUT
        /\ attempt[d] = SLAVE_PING_RETRY_TIMEOUT \div PING_RETRY_INTERVAL + 1

\* C9: when the relay's first successful ping reply comes on attempt N,
\* check_ping has returned PING_OK having issued exactly N ping commands and
\* slept exactly N - 1 times; a task that is still in the loop (sleeping or
\* starting an attempt) has heard no successful reply.
C9_ReturnsOnFirstSuccess ==
    \A d \in Devices :
        /\ (cmd[d] = "ping" /\ heard[d] = "answer") =>
               /\ tpc[d] = "ping_returned"
               /\ ping_status[d] = "PING_OK"
               /\ nCmd[d] = attempt[d]
               /\ nSleep[d] = attempt[d] - 1
        /\ (tpc[d] = "ping_returned" /\ ping_status[d] = "PING_OK") =>
               heard[d] = "answer"

\* C9 witness: the first successful reply came on attempt 3 of a master.
C9_SuccessOnThirdAttempt ==
    \E d \in Devices :
        /\ tpc[d] = "ping_returned" /\ ping_status[d] = "PING_OK"
        /\ attempt[d] = 3 /\ nSleep[d] = 2 /\ device_type[d] = "master"

\* C10: check_ssh_port_with_retry makes at most SSH_RETRY_ATTEMPTS attempts;
\* at the first attempt that reports the port open it has returned
\* SSH_PORT_OPEN; it returns SSH_PORT_CLOSED only after exactly
\* SSH_RETRY_ATTEMPTS attempts none of which reported the port open; it has
\* slept once between two attempts and never after the last one.
C10_PortRetry ==
    \A d \in Devices : cmd[d] \in {"port", "port_alt"} =>
        /\ attempt[d] <= SSH_RETRY_ATTEMPTS
        /\ heard[d] = "answer" =>
              tpc[d] = "ssh_returned" /\ ssh_status[d] = "SSH_PORT_OPEN"
        /\ tpc[d] = "ssh_sleep" => attempt[d] < SSH_RETRY_ATTEMPTS
        /\ tpc[d] = "ssh_returned" =>
              /\ nSleep[d] = attempt[d] - 1
              /\ nCmd[d] = attempt[d]
              /\ ssh_status[d] \in {"SSH_PORT_OPEN", "SSH_PORT_CLOSED"}
              /\ ssh_status[d] = "SSH_PORT_OPEN" => heard[d] = "answer"
              /\ ssh_status[d] = "SSH_PORT_CLOSED" =>
                    heard[d] # "answer" /\ attempt[d] = SSH_RETRY_ATTEMPTS

\* C10 witness: five attempts that all failed, the last one by both probing
\* commands raising: SSH_PORT_CLOSED after 5 attempts and 4 sleeps.
C10_ClosedAfterFive ==
    \E d \in Devices :
        /\ tpc[d] = "ssh_returned" /\ ssh_status[d] = "SSH_PORT_CLOSED"
        /\ cmd[d] = "port_alt"
        /\ attempt[d] = SSH_RETRY_ATTEMPTS /\ nSleep[d] = SSH_RETRY_ATTEMPTS - 1

\* full_check has returned the device to worker (which appends it next).
FullCheckReturned(d) == tpc[d] \in {"append", "notify", "done"}

\* C11: a port-check command (the /dev/tcp probe or its nc fallback) is the
\* current or last command of a device only if its ping phase returned
\* PING_OK; when full_check returns after a ping phase that ended otherwise,
\* the last command of the device is still the ping and ssh_status is PENDING.
C11_PortCheckOnlyAfterPingOk ==
    \A d \in Devices :
        /\ cmd[d] \in {"port", "port_alt"} => ping_status[d] = "PING_OK"
        /\ tpc[d] \in {"ssh_loop", "ssh_sleep", "ssh_returned"} =>
               ping_status[d] = "PING_OK"
        /\ FullCheckReturned(d) /\ ping_status[d] # "PING_OK" =>
               /\ cmd[d] = "ping"
               /\ ssh_status[d] = "PENDING"

\* C11 witness: full_check returned after the ping phase gave up.
C11_ReturnedAfterFailedPing ==
    \E d \in Devices :
        /\ FullCheckReturned(d)
        /\ ping_status[d] = "PING_FAILED"
        /\ ssh_status[d] = "PENDING"
        /\ cmd[d] = "ping"

\* device.malfunction_type was assigned what classify returned.
Classified(d) == malfunction_type[d] # <<>>
Category(d) == malfunction_type[d][1]
Note(d) == malfunction_type[d][2]

\* C12: a classified record whose door_open is True has category "Porta
\* aperta", whatever its statuses and other facts are (battery_ok False
\* included).
C12_DoorOpenWins ==
    \A d \in Devices :
        Classified(d) /\ door_open[d] = "True" => Category(d) = "Porta aperta"

\* C12 witness: door open and battery alarm on the same record.
C12_DoorOpenAndBatteryAlarm ==
    \E d \in Devices :
        /\ Classified(d)
        /\ door_open[d] = "True"
        /\ battery_ok[d] = "False"
        /\ Category(d) = "Porta aperta"

\* C13: a classified record with mongodb_has_data True and the port not open
\* (door_open not True, battery_ok not False) has category "OK" and a
\* connectivity note that is not empty.
C13_ActiveButUnreachable ==
    \A d \in Devices :
        /\ Classified(d)
        /\ mongodb_has_data[d] = "True"
        /\ ~CheckSsh(d)
        /\ door_open[d] # "True"
        /\ battery_ok[d] # "False"
        => Category(d) = "OK" /\ Note(d) # <<>>

\* C13 witness: data in the store, ping fine, port closed.
C13_DataButPortClosed ==
    \E d \in Devices :
        /\ Classified(d)
        /\ mongodb_has_data[d] = "True"
        /\ CheckPing(d)
        /\ ssh_status[d] = "SSH_PORT_CLOSED"
        /\ door_open[d] # "True"
        /\ battery_ok[d] # "False"
        /\ Note(d) = <<"Non raggiungibile", "SSH KO">>

\* C14: a classified record with ping not ok, port not open and
\* mongodb_has_data None (door_open not True, battery_ok not False) has
\* category "Disconnesso", whatever lte_ok is.
C14_UnreachableUnknownData ==
    \A d \in Devices :
        /\ Classified(d)
        /\ ~CheckPing(d)
        /\ ~CheckSsh(d)
        /\ mongodb_has_data[d] = "None"
        /\ door_open[d] # "True"
        /\ battery_ok[d] # "False"
        => Category(d) = "Disconnesso"

\* C14 witness: such a record whose link is reported connected.
C14_UnreachableWithLinkUp ==
    \E d \in Devices :
        /\ Classified(d)
        /\ ping_status[d] = "PING_FAILED"
        /\ ~CheckSsh(d)
        /\ mongodb_has_data[d] = "None"
        /\ lte_ok[d] = "True"
        /\ door_open[d] # "True"
        /\ battery_ok[d] # "False"
        /\ Category(d) = "Disconnesso"

\* C15 as claimed: a classified record with the port open and
\* mongodb_has_data False (door_open not True, battery_ok not False) has
\* category "Metriche assenti" for every lte_ok.  Rule 5 decides otherwise
\* when lte_ok is False.
C15_MetricsMissingAnyLink ==
    \A d \in Devices :
        /\ Classified(d)
        /\ CheckSsh(d)
        /\ mongodb_has_data[d] = "False"
        /\ door_open[d] # "True"
        /\ battery_ok[d] # "False"
        => Category(d) = "Metriche assenti"

\* C15 amended: such a record has category "Metriche assenti" when lte_ok is
\* not False, and "Disconnesso" when lte_ok is False.
C15_MetricsMissingUnlessLinkDown ==
    \A d \in Devices :
        /\ Classified(d)
        /\ CheckSsh(d)
        /\ mongodb_has_data[d] = "False"
        /\ door_open[d] # "True"
        /\ battery_ok[d] # "False"
        => Category(d) = IF lte_ok[d] = "False" THEN "Disconnesso"
                         ELSE "Metriche assenti"

\* C15 witness: port open, no data, link state unknown.
C15_PortOpenNoData ==
    \E d \in Devices :
        /\ Classified(d)
        /\ CheckSsh(d)
        /\ mongodb_has_data[d] = "False"
        /\ lte_ok[d] = "None"
        /\ door_open[d] # "True"
        /\ battery_ok[d] # "False"
        /\ Category(d) = "Metriche assenti"

\* The four facts of a record are all None.
AllFactsUnknown(d) ==
    /\ battery_ok[d] = "None"
    /\ door_open[d] = "None"
    /\ lte_ok[d] = "None"
    /\ mongodb_has_data[d] = "None"

\* C16 as claimed: a classified record with all facts None, ping not ok and
\* port not open has category "Non classificato".  Rule 4 makes it
\* "Disconnesso".
C16_AllUnknownIsUnclassified ==
    \A d \in Devices :
        Classified(d) /\ AllFactsUnknown(d) /\ ~CheckPing(d) /\ ~CheckSsh(d)
        => Category(d) = "Non classificato"

\* C16 amended: a classified record with all facts None and the port not
\* open has category "Non classificato" when the ping succeeded and
\* "Disconnesso" when it did not.
C16_AllUnknownByPing ==
    \A d \in Devices :
        Classified(d) /\ AllFactsUnknown(d) /\ ~CheckSsh(d)
        => Category(d) = IF CheckPing(d) THEN "Non classificato"
                         ELSE "Disconnesso"

\* C16 witness: nothing known but a ping that answered.
C16_OnlyPingKnown ==
    \E d \in Devices :
        /\ Classified(d)
        /\ AllFactsUnknown(d)
        /\ CheckPing(d)
        /\ ~CheckSsh(d)
        /\ Category(d) = "Non classificato"

\* C17: for every classified record the category is that of the first
\* matching rule of the ordered list: 1 door open; 2 battery alarm; 3 recent
\* data -> OK; 4 ping and port both failed and data absent or unknown ->
\* disconnected; 5 link confirmed down and data absent -> disconnected;
\* 6 data absent while reachable by port or ping or link -> metrics missing;
\* 7 port open -> OK; 8 link confirmed up -> OK; 9 not classified.
C17_FirstMatchingRule ==
    \A d \in Devices :
        LET ping == ping_status[d] = "PING_OK"
            port == ssh_status[d] = "SSH_PORT_OPEN"
            data == mongodb_has_data[d]
            link == lte_ok[d]
            listed ==
                IF door_open[d] = "True" THEN "Porta aperta"
                ELSE IF battery_ok[d] = "False" THEN "Allarme batteria"
                ELSE IF data = "True" THEN "OK"
                ELSE IF ~ping /\ ~port /\ data \in {"False", "None"}
                THEN "Disconnesso"
                ELSE IF link = "False" /\ data = "False" THEN "Disconnesso"
                ELSE IF data = "False" /\ (port \/ ping \/ link = "True")
                THEN "Metriche assenti"
                ELSE IF port THEN "OK"
                ELSE IF link = "True" THEN "OK"
                ELSE "Non classificato"
        IN  Classified(d) => Category(d) = listed

\* C17 witness: a record decided by rule 5 although its port is open.
C17_LinkDownBeatsOpenPort ==
    \E d \in Devices :
        /\ Classified(d)
        /\ CheckSsh(d)
        /\ lte_ok[d] = "False"
        /\ mongodb_has_data[d] = "False"
        /\ door_open[d] # "True"
        /\ battery_ok[d] # "False"
        /\ Category(d) = "Disconnesso"

\* C18 as claimed: a device whose 24h query failed with an error keeps
\* mongodb_has_data unknown.  The code stores the dataclass default False.
C18_FailedQueryStaysUnknown ==
    \A d \in mongoFailed : mongodb_has_data[d] # "False"

\* C19 as claimed: a device whose vendor API call failed (no token, non-200
\* status, exception) has an api_error note.  The code records none.
C19_ApiFailureNoted ==
    \A d \in apiFailed : api_error[d] # ""

\* The devices at positions 1 .. n-1 of the list the stages walk.
Before(n) == {results[i] : i \in 1..(IF n - 1 < Len(results) THEN n - 1 ELSE Len(results))}

\* The mongo stage got past start_tunnel and connect.
MongoStageRan ==
    \A d \in Devices :
        mongodb_error[d] \notin {"Tunnel SSH fallito", "Connessione MongoDB fallita"}

\* C20: no failure ends a fusion stage: inside either device loop every
\* earlier device of the list was queried, failed or not; unless a stop was
\* requested, past the API stage every device was sent to the API, past the
\* mongo stage (tunnel and connection up) every device was queried, and a
\* finished run has classified every device; the run never aborts.
C20_FailuresDoNotStopFusion ==
    /\ dpc # "failed"
    /\ dpc = "api_loop" => apiCalled = Before(idx)
    /\ dpc = "mongo_loop" => mongoCalled = Before(idx)
    /\ ~stop_requested /\ check_api
         /\ dpc \notin {"idle", "phase2", "api_loop"}
       => apiCalled = Devices
    /\ ~stop_requested /\ check_mongodb /\ MongoStageRan
         /\ dpc \in {"phase4", "classify_loop", "emit", "finished"}
       => mongoCalled = Devices
    /\ ~stop_requested /\ dpc = "finished" => \A d \in Devices : Classified(d)

\* C20 witness: the first device failed in both stages, the last one was
\* still queried with success and the run finished with all classified.
C20_FirstFailsLastQueried ==
    /\ dpc = "finished"
    /\ ~stop_requested
    /\ 1 \in apiFailed /\ 1 \in mongoFailed
    /\ NumDevices \in apiCalled \ apiFailed
    /\ NumDevices \in mongoCalled \ mongoFailed
    /\ \A d \in Devices : Classified(d)

\* ------------------------------------------------------ ResultExporter
\* export_diagnostic_results: "for r in results" appends one row per
\* result, in list order; the rows are shown by their device.
ExportDiagnosticResults(rs) == [i \in 1..Len(rs) |-> rs[i]]

\* getattr(device, 'malfunction_type', '') == category, as the note logic
\* and the summary counts evaluate it: an unset attribute reads as '', and
\* the pair _classify_malfunctions stored is a tuple, which Python never
\* finds equal to a str.
MalfunctionEquals(d, category) ==
    IF malfunction_type[d] = <<>> THEN category = "" ELSE FALSE

\* getattr(device, 'connectivity_note', ''): no statement of the program
\* assigns the attribute, so the default is what the report reads.
ConnectivityNoteField(d) == <<>>

\* The closed set of categories classify returns.
Categories == {"Porta aperta", "Allarme batteria", "OK", "Disconnesso",
               "Metriche assenti", "Non classificato"}

\* C21 as claimed: once check_devices has returned, the rows of the export
\* follow the input order of the devices (device 1, 2, ...), whatever the
\* order the workers completed in.  The code exports the completion order.
C21_ExportInInputOrder ==
    mainpc = "returned" =>
        LET rows == ExportDiagnosticResults(results)
        IN  \A i, j \in 1..Len(rows) : i < j => rows[i] < rows[j]

\* C22 as claimed: after classification the report reads, for each device,
\* a malfunction_type equal to the category classify decided (one of the
\* closed set) and a connectivity_note equal to the note classify returned.
\* The code stores the whole pair in malfunction_type and no
\* connectivity_note.
C22_ReportSeesCategory ==
    \A d \in Devices :
        Classified(d) =>
            /\ Category(d) \in Categories
            /\ MalfunctionEquals(d, Category(d))
            /\ ConnectivityNoteField(d) = Note(d)

\* C28: the ping retry budget follows the role alone: check_ping sleeps for
\* another attempt only while the attempt started before 300 s for a master
\* and before 1200 s for any other role (slave, unknown), and returns
\* PING_FAILED only for an attempt that started at or past that time.
C28_BudgetByRole ==
    \A d \in Devices :
        LET budget == IF device_type[d] = "master" THEN 300 ELSE 1200
        IN  /\ tpc[d] = "ping_sleep" => elapsed[d] < budget
            /\ tpc[d] = "ping_returned" /\ ping_status[d] = "PING_FAILED" =>
                   elapsed[d] >= budget

\* C28 witness: a device of unknown role is still being retried after more
\* than 300 s.
C28_UnknownRetriedLikeSlave ==
    \E d \in Devices :
        /\ device_type[d] = "unknown"
        /\ tpc[d] = "ping_sleep"
        /\ elapsed[d] > 300


\* -------------------------------------------------- sessions and commands
\* execute_command hands its result back to check_ping_single or
\* check_ssh_port in this step.
ExecuteCommandReturns(d) ==
    /\ tpc[d] \in {"connect", "exec", "read"}
    /\ tpc'[d] \notin {"connect", "exec", "read"}

\* C23: execute_command never issues a command on a session whose transport
\* is not alive: when the transport is not active at the call it goes through
\* connect() first, a command is issued only over an active transport, and a
\* failed connect() makes it return failure without a command being issued.
C23_NoCommandOnDeadSession ==
    [][\A d \in Devices :
          /\ tpc[d] = "call" /\ tpc'[d] # "call" =>
                 tpc'[d] = (IF ssh_client = "active" THEN "exec" ELSE "connect")
          /\ tpc'[d] = "read" /\ tpc[d] # "read" => ssh_client = "active"
          /\ tpc[d] = "connect" /\ ExecuteCommandReturns(d) =>
                 /\ ssh_client' # "active"
                 /\ exec_success'[d] = "False"
                 /\ nCmd'[d] = nCmd[d]
                 /\ lock' = lock]_vars

\* C23 witness: after the transport died a lazy connect() failed, and
\* execute_command returned failure with no command issued in this attempt.
C23_ConnectFailedNoCommand ==
    \E d \in Devices :
        /\ drops > 0
        /\ ssh_client = "inactive"
        /\ cmd[d] = "ping"
        /\ attempt[d] = 1
        /\ exec_success[d] = "False"
        /\ nCmd[d] = 0

\* C24: a BridgeConnection holds at most one live session: connect() called
\* while the transport is active opens no session, so workers that reconnect
\* lazily at the same time after a drop open one session between them.
C24_OneLiveSession ==
    [][/\ live' <= 1
       /\ \A d \in Devices :
             tpc[d] = "connect" /\ tpc'[d] # "connect" /\ ssh_client = "active" =>
                 live' = live /\ ssh_client' = "active"]_vars

\* C24 witness: after a drop two workers found the session dead; one has
\* reconnected and the other is about to call connect() on the live session.
C24_SecondReconnectFindsSession ==
    \E d, e \in Devices :
        /\ d # e
        /\ drops > 0
        /\ tpc[d] = "connect"
        /\ tpc[e] \in {"exec", "read"}
        /\ ssh_client = "active"
        /\ live = 1

\* C29: within one port-check attempt the nc command is issued if and only
\* if executing the first command failed, never after the first command ran
\* and reported the port closed, and the attempt yields ERROR only when both
\* commands failed to execute.
C29_FallbackOnlyOnExecFailure ==
    [][\A d \in Devices :
          ExecuteCommandReturns(d) /\ cmd[d] \in {"port", "port_alt"} =>
              /\ cmd[d] = "port" =>
                     (cmd'[d] = "port_alt" /\ tpc'[d] = "call"
                          <=> exec_success'[d] = "False")
              /\ cmd[d] = "port_alt" => cmd'[d] = "port_alt" /\ tpc'[d] # "call"
              /\ tpc'[d] # "call" /\ status'[d] = "ERROR" =>
                     cmd[d] = "port_alt" /\ exec_success'[d] = "False"]_vars

\* C29 witness: both commands of one attempt failed and the attempt yielded
\* ERROR.
C29_BothCommandsFailed ==
    \E d \in Devices :
        /\ cmd[d] = "port_alt"
        /\ exec_success[d] = "False"
        /\ status[d] = "ERROR"
        /\ tpc[d] \in {"ssh_sleep", "ssh_returned"}

\* C30: a cancellation request is never lost: once stop() has been called
\* on the checker, no work item that has not started runs a probe sequence.
C30_StopNeverLost ==
    [][\A d \in Devices :
          stop_called /\ tpc[d] = "pending" =>
              tpc'[d] \in {"pending", "done", "cancelled"}]_vars


\* ------------------------------------------------------- text functions
\* Strings are sequences of one-character strings.
\* sub in s
contains(s, sub) ==
    \E i \in 1..(Len(s) - Len(sub) + 1) : SubSeq(s, i, i + Len(sub) - 1) = sub

\* s.startswith(prefix)
startswith(s, prefix) ==
    Len(s) >= Len(prefix) /\ SubSeq(s, 1, Len(prefix)) = prefix

\* s.split(sep) for a one-character separator
RECURSIVE split(_, _)
split(s, sep) ==
    IF \E i \in 1..Len(s) : s[i] = sep
    THEN LET i == CHOOSE i \in 1..Len(s) :
                     s[i] = sep /\ \A j \in 1..(i - 1) : s[j] # sep
         IN  <<SubSeq(s, 1, i - 1)>> \o split(SubSeq(s, i + 1, Len(s)), sep)
    ELSE <<s>>

\* s.strip()
RECURSIVE strip(_)
strip(s) ==
    IF s # <<>> /\ s[1] = " " THEN strip(Tail(s))
    ELSE IF s # <<>> /\ s[Len(s)] = " " THEN strip(SubSeq(s, 1, Len(s) - 1))
    ELSE s

\* s.isdigit()
isdigit(s) ==
    /\ s # <<>>
    /\ \A i \in 1..Len(s) :
          s[i] \in {"0", "1", "2", "3", "4", "5", "6", "7", "8", "9"}

\* Mutant of detect_device_type: the substring rules alone decide.
detect_device_type_BySubstringOnly(id) ==
    IF contains(id, <<"1", "5">>) /\ ~contains(id, <<"1", "6">>) THEN "master"
    ELSE IF contains(id, <<"1", "6">>) THEN "slave"
    ELSE "unknown"

\* detect_device_type(device_id)
detect_device_type(id) ==
    LET parts == split(id, ":")
    IN  IF Len(parts) >= 4 /\ parts[4] = <<"1", "5">> THEN "master"
        ELSE IF Len(parts) >= 4 /\ parts[4] = <<"1", "6">> THEN "slave"
        ELSE IF contains(id, <<"1", "5">>) /\ ~contains(id, <<"1", "6">>)
        THEN "master"
        ELSE IF contains(id, <<"1", "6">>) THEN "slave"
        ELSE "unknown"

\* The prefixes normalize_ip knows and what it writes for them.
Prefix224 == <<"1", "0", "1", "8", "3", "2", "2", "4">>
Prefix22 == <<"1", "0", "1", "8", "3", "2", "2">>
Dotted224 == <<"1", "0", ".", "1", "8", "3", ".", "2", "2", "4", ".">>
Dotted22 == <<"1", "0", ".", "1", "8", "3", ".", "2", "2", ".">>

\* Mutant of normalize_ip: the shorter prefix is tried first.
normalize_ip_ShortPrefixFirst(raw) ==
    LET ip_str == strip(raw)
    IN  IF contains(ip_str, <<".">>) THEN ip_str
        ELSE IF isdigit(ip_str) /\ Len(ip_str) >= 9
        THEN IF startswith(ip_str, Prefix22)
             THEN Dotted22 \o SubSeq(ip_str, 8, Len(ip_str))
             ELSE IF startswith(ip_str, Prefix224)
             THEN Dotted224 \o SubSeq(ip_str, 9, Len(ip_str))
             ELSE ip_str
        ELSE ip_str

\* normalize_ip(ip_raw)
normalize_ip(raw) ==
    LET ip_str == strip(raw)
    IN  IF contains(ip_str, <<".">>) THEN ip_str
        ELSE IF isdigit(ip_str) /\ Len(ip_str) >= 9
        THEN IF startswith(ip_str, Prefix224)
             THEN Dotted224 \o SubSeq(ip_str, 9, Len(ip_str))
             ELSE IF startswith(ip_str, Prefix22)
             THEN Dotted22 \o SubSeq(ip_str, 8, Len(ip_str))
             ELSE ip_str
        ELSE ip_str

\* A count too wide for a machine integer of the checker is the pair
\* <<thousands, units>>; 4102444800 is the year 2100 in seconds.
MillisThreshold == <<4102444, 800>>

\* a > b on such pairs
GreaterThan(a, b) == a[1] > b[1] \/ (a[1] = b[1] /\ a[2] > b[2])

\* The calendar date of a day count since 1970-01-01 (proleptic Gregorian),
\* as datetime computes it.
CivilFromDays(days) ==
    LET z == days + 719468
        era == z \div 146097
        doe == z - era * 146097
        yoe == (doe - doe \div 1460 + doe \div 36524 - doe \div 146096) \div 365
        doy == doe - (365 * yoe + yoe \div 4 - yoe \div 100)
        mp == (5 * doy + 2) \div 153
        day == doy - (153 * mp + 2) \div 5 + 1
        month == IF mp < 10 THEN mp + 3 ELSE mp - 9
        year == yoe + era * 400 + (IF month <= 2 THEN 1 ELSE 0)
    IN  <<year, month, day>>

\* The fields strftime("%Y-%m-%d %H:%M:%S") prints for the naive date and
\* time that is wall seconds after 1970-01-01 00:00:00.
Strftime(wall) ==
    LET sod == wall % 86400
    IN  CivilFromDays(wall \div 86400)
            \o <<sod \div 3600, (sod % 3600) \div 60, sod % 60>>

\* datetime.fromtimestamp(seconds): the local date and time of the machine.
FromTimestamp(seconds) == seconds + utc_offset * 3600

\* _decode_timestamp(timestamp).  An ISO string loses its zone suffix
\* ("+hh:mm" or "Z") and its fields are printed as written; a number above
\* the threshold is divided by 1000, the fraction not being printed; numbers
\* up to the threshold are taken to fit the machine integer.
decode_timestamp(ts) ==
    IF ts.kind = "None" THEN <<>>
    ELSE IF ts.kind = "iso" THEN ts.fields
    ELSE LET seconds == IF GreaterThan(ts.value, MillisThreshold)
                        THEN ts.value[1]
                        ELSE ts.value[1] * 1000 + ts.value[2]
         IN  Strftime(FromTimestamp(seconds))

\* The forms the API gives one instant in: epoch seconds, epoch
\* milliseconds, and an ISO-8601 string written in the zone that is zone
\* hours ahead of UTC ("Z" for 0, "+01:00" for 1).
EpochSeconds(t) == [kind |-> "num", value |-> <<t \div 1000, t % 1000>>]
EpochMillis(t) == [kind |-> "num", value |-> <<t, 0>>]
IsoString(t, zone) ==
    [kind |-> "iso", fields |-> Strftime(t + zone * 3600),
     suffix |-> IF zone = 0 THEN "Z" ELSE "+01:00"]

\* Instants of the self-test and of a new year's night, and the zones at hand.
Instants == {1737297942, 1735687800}
Zones == {0, 1}

\* All strings over an alphabet up to a length.
Strings(alphabet, n) == UNION {[1..k -> alphabet] : k \in 0..n}
Stems == {<<>>, Prefix224, Prefix22, <<"1", "0", "1", "8", "3", "2", "1">>,
          Dotted224}
Pads == {<<>>, <<" ">>}

\* No checker and no diagnostic thread is running.
NoChecker ==
    /\ mainpc = "idle"
    /\ success = "unset"
    /\ stop_flag = FALSE
    /\ ssh_client = "None"
    /\ lock = 0
    /\ results = <<>>
    /\ completed = 0
    /\ yielded = {}
    /\ device_type = [d \in Devices |-> "unknown"]
    /\ ping_status = [d \in Devices |-> "PENDING"]
    /\ ssh_status = [d \in Devices |-> "PENDING"]
    /\ error_message = [d \in Devices |-> ""]
    /\ NoTaskState
    /\ NoObservations
    /\ live = 0
    /\ drops = 0
    /\ stop_called = FALSE
    /\ NoDiagnosticThread

InitDetect ==
    /\ textpc = "detect"
    /\ device_id \in Strings({"1", "5", "6", ":"}, MaxIdLen)
    /\ ip_raw = <<>>
    /\ timestamp = [kind |-> "None"]
    /\ instant = 0
    /\ utc_offset = 0

InitNormalize ==
    /\ textpc = "normalize"
    /\ device_id = <<>>
    /\ \E left \in Pads, stem \in Stems, right \in Pads :
       \E tail \in Strings({"4", "7", ".", "a"}, MaxTailLen) :
          ip_raw = left \o stem \o tail \o right
    /\ timestamp = [kind |-> "None"]
    /\ instant = 0
    /\ utc_offset = 0

InitDecode ==
    /\ textpc = "decode"
    /\ device_id = <<>>
    /\ ip_raw = <<>>
    /\ instant \in Instants
    /\ utc_offset \in Zones
    /\ \/ timestamp = EpochSeconds(instant)
       \/ timestamp = EpochMillis(instant)
       \/ \E zone \in Zones : timestamp = IsoString(instant, zone)

InitText ==
    /\ NoChecker
    /\ ip_address = <<>>
    /\ api_timestamp = <<>>
    /\ dtype = "unset"
    /\ InitDetect \/ InitNormalize \/ InitDecode

DetectDeviceType ==
    /\ textpc = "detect"
    /\ dtype' = detect_device_type(device_id)
    /\ textpc' = "detected"
    /\ UNCHANGED <<checkerVars, stop_flag, stop_called, diagVars, device_id,
                   ip_raw, ip_address, timestamp, instant, utc_offset,
                   api_timestamp>>

NormalizeIp ==
    /\ textpc = "normalize"
    /\ ip_address' = normalize_ip(ip_raw)
    /\ textpc' = "normalized"
    /\ UNCHANGED <<checkerVars, stop_flag, stop_called, diagVars, device_id,
                   ip_raw, timestamp, instant, utc_offset, api_timestamp,
                   dtype>>

DecodeTimestamp ==
    /\ textpc = "decode"
    /\ api_timestamp' = decode_timestamp(timestamp)
    /\ textpc' = "decoded"
    /\ UNCHANGED <<checkerVars, stop_flag, stop_called, diagVars, device_id,
                   ip_raw, ip_address, timestamp, instant, utc_offset, dtype>>

NextText ==
    \/ DetectDeviceType
    \/ NormalizeIp
    \/ DecodeTimestamp

SpecText == InitText /\ [][NextText]_vars

\* The positions of the colons of the identifier.
ColonAt == {i \in 1..Len(device_id) : device_id[i] = ":"}

\* The fourth colon-delimited token of the identifier is tok: tok follows
\* the third colon and ends at the next colon or at the end.
FourthTokenIs(tok) ==
    \E k \in ColonAt :
        /\ Cardinality({i \in ColonAt : i <= k}) = 3
        /\ Len(device_id) >= k + Len(tok)
        /\ SubSeq(device_id, k + 1, k + Len(tok)) = tok
        /\ \/ Len(device_id) = k + Len(tok)
           \/ device_id[k + Len(tok) + 1] = ":"

\* C25: detect_device_type returns MASTER when the fourth colon-delimited
\* token is "15" and SLAVE when it is "16"; otherwise "15" somewhere without
\* "16" gives MASTER, "16" somewhere gives SLAVE, and anything else UNKNOWN.
C25_RoleFromIdentifier ==
    textpc = "detected" =>
        LET has15 == \E i \in 1..(Len(device_id) - 1) :
                         device_id[i] = "1" /\ device_id[i + 1] = "5"
            has16 == \E i \in 1..(Len(device_id) - 1) :
                         device_id[i] = "1" /\ device_id[i + 1] = "6"
        IN  dtype = (IF FourthTokenIs(<<"1", "5">>) THEN "master"
                     ELSE IF FourthTokenIs(<<"1", "6">>) THEN "slave"
                     ELSE IF has15 /\ ~has16 THEN "master"
                     ELSE IF has16 THEN "slave"
                     ELSE "unknown")

\* C25 witness: the fourth token says master although "16" stands elsewhere
\* in the identifier.
C25_TokenBeatsSubstring ==
    /\ textpc = "detected"
    /\ device_id = <<"1", "6", ":", ":", ":", "1", "5">>
    /\ dtype = "master"

\* What the rules of normalize_ip make of a value v: with a dot it is
\* returned as it is, a digit string of 9 or more with a known prefix is
\* rewritten, and anything else is returned as it is.
NormalizedFrom(v) ==
    IF \E i \in 1..Len(v) : v[i] = "." THEN ip_address = v
    ELSE IF isdigit(v) /\ Len(v) >= 9 /\ startswith(v, Prefix224)
    THEN ip_address = Dotted224 \o SubSeq(v, Len(Prefix224) + 1, Len(v))
    ELSE IF isdigit(v) /\ Len(v) >= 9 /\ startswith(v, Prefix22)
    THEN ip_address = Dotted22 \o SubSeq(v, Len(Prefix22) + 1, Len(v))
    ELSE ip_address = v

\* The value without the blanks around it.
Unpadded(v) ==
    LET inked == {i \in 1..Len(v) : v[i] # " "}
    IN  IF inked = {} THEN <<>>
        ELSE SubSeq(v, CHOOSE i \in inked : \A j \in inked : i <= j,
                       CHOOSE i \in inked : \A j \in inked : i >= j)

C27_SameInstantSameString ==
    textpc = "decoded" =>
        api_timestamp = decode_timestamp(EpochSeconds(instant))


\* --------------------------------------------------- batch and diagnosis
\* How many times device d stands in the list check_devices returns.
TimesReturned(d) == Cardinality({i \in 1..Len(results) : results[i] = d})

\* C31: in a run whose relay connection succeeded and that was not
\* cancelled, the list check_devices returns holds every input device
\* exactly once, a device whose worker raised included.
C31_EveryDeviceReturnedOnce ==
    (mainpc = "returned" /\ success = "True" /\ ~stop_called) =>
        \A d \in Devices : TimesReturned(d) = 1


\* check_devices is past "with ThreadPoolExecutor(...)" on the path where
\* the relay connection succeeded: disconnect() is next or has been called.
TearingDown == mainpc \in {"cleanup", "complete", "returned"} /\ success = "True"

\* C32: no relay command is issued after the batch teardown: when
\* check_devices reaches disconnect(), also after a cancellation, no worker
\* is running or queued, and from then on no worker moves, no command takes
\* the relay lock and the session, once closed, is not opened again.
C32_NoCommandAfterTeardown ==
    [][/\ TearingDown' =>
             \A d \in Devices : ~Running(d)' /\ tpc'[d] # "pending"
       /\ TearingDown =>
             /\ tpc' = tpc
             /\ nCmd' = nCmd
             /\ lock' = 0
             /\ ssh_client' \in {ssh_client, "None"}]_vars

\* C32 witness: a cancelled batch was torn down and has returned; one device
\* was probed by a worker that had started, another was cancelled in the queue.
C32_TornDownAfterCancel ==
    /\ mainpc = "returned" /\ success = "True" /\ stop_flag
    /\ ssh_client = "None"
    /\ \E d, e \in Devices :
          /\ tpc[d] = "done" /\ TimesReturned(d) = 1
          /\ tpc[e] = "cancelled"


\* C33: in an uncancelled run over N devices the N "Completato" callbacks
\* carry pairwise distinct counts that cover 1..N.
C33_CountsCoverOneToN ==
    (/\ mainpc = "returned" /\ success = "True" /\ ~stop_called
     /\ \A d \in Devices : tpc[d] = "done") =>
        {reported[d] : d \in Devices} = 1..NumDevices


\* Worker d is about to acquire the relay lock: in is_connected, in
\* connect or at "with self._lock" of execute_command.
WantsLock(d) == tpc[d] \in {"call", "connect", "exec"}

\* C34: no thread tries to acquire the relay lock while it holds it, and
\* every caller gets the lock in the end: no worker stays for ever at an
\* acquisition point, so every worker returns, the scanner gets through
\* disconnect() and check_devices returns.
C34_NoSelfDeadlock ==
    /\ [](\A d \in Devices : WantsLock(d) => lock # d)
    /\ [](mainpc = "cleanup" => lock = 0)
    /\ <>(mainpc = "returned" /\ \A d \in Devices : ~WantsLock(d))

\* C34 witness: a worker waits to reconnect while another one holds the lock
\* for its command.
C34_WaitsForHolder ==
    \E d, e \in Devices :
        /\ tpc[d] = "connect"
        /\ tpc[e] = "read"
        /\ lock = e


\* The checks of the record that did not succeed, as the note names them.
FailedChecks(d) ==
    (IF ping_status[d] = "PING_OK" THEN {} ELSE {"Ping KO"})
        \cup (IF ssh_status[d] = "SSH_PORT_OPEN" THEN {} ELSE {"SSH KO"})

\* The parts of the note of a classified record.
NoteParts(d) == {Note(d)[i] : i \in 1..Len(Note(d))}

\* C35: classify returns "OK" only on positive evidence: a record classified
\* "OK" has data confirmed in the store, or its port open, or its link
\* confirmed up, and its door is not confirmed open nor its battery
\* confirmed bad.
C35_OkOnlyOnEvidence ==
    \A d \in Devices :
        Classified(d) /\ Category(d) = "OK" =>
            /\ \/ mongodb_has_data[d] = "True"
               \/ ssh_status[d] = "SSH_PORT_OPEN"
               \/ lte_ok[d] = "True"
            /\ door_open[d] # "True"
            /\ battery_ok[d] # "False"

\* C35 witness: a record is "OK" on the evidence of the link alone.
C35_OkByLinkAlone ==
    \E d \in Devices :
        /\ Classified(d) /\ Category(d) = "OK"
        /\ lte_ok[d] = "True"
        /\ mongodb_has_data[d] = "None"
        /\ ssh_status[d] # "SSH_PORT_OPEN"
        /\ battery_ok[d] = "None" /\ door_open[d] = "None"

\* C36: a record classified "OK" whose ping or port check did not succeed
\* has a note that is not empty and names each failed check.
C36_OkNoteNamesFailedChecks ==
    \A d \in Devices :
        Classified(d) /\ Category(d) = "OK" /\ FailedChecks(d) # {} =>
            /\ Note(d) # <<>>
            /\ FailedChecks(d) \subseteq NoteParts(d)

\* C37: classify returns "Non classificato" exactly for the records with
\* door_open not True, battery_ok not False, ping ok, the port not open,
\* the store fact unknown and the link not confirmed up; every other record
\* gets one of the five other categories.
C37_UnclassifiedExactly ==
    \A d \in Devices :
        Classified(d) =>
            /\ Category(d) \in Categories
            /\ Category(d) = "Non classificato" <=>
                  /\ door_open[d] # "True"
                  /\ battery_ok[d] # "False"
                  /\ ping_status[d] = "PING_OK"
                  /\ ssh_status[d] # "SSH_PORT_OPEN"
                  /\ mongodb_has_data[d] = "None"
                  /\ lte_ok[d] # "True"

\* C37 witness: a record that answers ping, with the port closed, the link
\* confirmed down and nothing known of its data is not classified.
C37_PingOnlyLinkDown ==
    \E d \in Devices :
        /\ Classified(d) /\ Category(d) = "Non classificato"
        /\ ping_status[d] = "PING_OK"
        /\ ssh_status[d] = "SSH_PORT_CLOSED"
        /\ lte_ok[d] = "False"
        /\ mongodb_has_data[d] = "None"
        /\ battery_ok[d] = "True"


\* full_check holds the final statuses of the device: the port phase has
\* returned to it, or full_check itself has returned.
FullCheckDecided(d) == tpc[d] = "ssh_returned" \/ FullCheckReturned(d)

\* C38: when full_check returns, ping_status is PING_OK or PING_FAILED and
\* ssh_status is PENDING, SSH_PORT_OPEN or SSH_PORT_CLOSED, also when single
\* attempts ended in ERROR or SSH_TIMEOUT, and ssh_status is other than
\* PENDING only if ping_status is PING_OK.
C38_FinalStatuses ==
    \A d \in Devices :
        FullCheckDecided(d) =>
            /\ ping_status[d] \in {"PING_OK", "PING_FAILED"}
            /\ ssh_status[d] \in {"PENDING", "SSH_PORT_OPEN", "SSH_PORT_CLOSED"}
            /\ ssh_status[d] # "PENDING" => ping_status[d] = "PING_OK"

\* C38 witness: the last port attempt timed out and the port phase handed
\* SSH_PORT_CLOSED to full_check.
C38_TimeoutBecomesClosed ==
    \E d \in Devices :
        /\ tpc[d] = "ssh_returned"
        /\ status[d] = "SSH_TIMEOUT"
        /\ ping_status[d] = "PING_OK"
        /\ ssh_status[d] = "SSH_PORT_CLOSED"


\* The stop request keeps run out of every stage it has not begun and out
\* of every further device call.
StopSkipsStages ==
    stop_requested =>
        /\ dpc = "phase2" => dpc' # "api_loop"
        /\ dpc = "phase3" => dpc' # "tunnel"
        /\ dpc = "phase4" => dpc' # "classify_loop"
        /\ apiCalled' = apiCalled
        /\ mongoCalled' = mongoCalled

\* C39: every run ends with exactly one of the two final signals: none is
\* emitted while run is under way, a run that came to its end emitted the
\* completed signal alone, carrying the result list, a run that raised
\* emitted the error signal alone, and every run reaches one of the two
\* ends; once a stop is requested no stage that has not begun is entered
\* and no further device is queried.
C39_ExactlyOneFinalSignal ==
    /\ [](dpc \notin {"idle", "finished", "errored"} => signals = <<>>)
    /\ [](dpc = "finished" =>
             signals = <<"completed">> /\ completed_results = results)
    /\ [](dpc = "errored" =>
             signals = <<"error">> /\ completed_results = <<>>)
    /\ [][StopSkipsStages]_vars
    /\ <>(dpc \in {"finished", "errored"})

\* C39 witness: a run stopped before classification has ended with the
\* completed signal alone, its list holding devices left unclassified.
C39_StoppedRunCompleted ==
    /\ dpc = "finished"
    /\ stop_requested
    /\ signals = <<"completed">>
    /\ completed_results = results
    /\ \E d \in Devices : malfunction_type[d] = <<>>

====
